---- MODULE Spec2Model ----
(***************************************************************************)
(* Model of the Databricks chatbot repository:                             *)
(*   - deploy.py: the CLI-output interpreter (extract_json_from_output,    *)
(*     clean_error_message, display_friendly_error), manageable-scope      *)
(*     discovery, the deployment commands and main;                        *)
(*   - src/services/chat_service.py, src/services/agent_service.py and     *)
(*     the session handlers of src/app.py.                                 *)
(* Each part has its own specification (SpecJson, SpecScopes, ...); the    *)
(* variables of the other parts stay at their idle values.                 *)
(***************************************************************************)
EXTENDS Integers, Sequences, FiniteSets, TLC

VARIABLES
    output,        \* extract_json_from_output: the text handed in
    jsonResult     \* extract_json_from_output: what the last call returned

VARIABLES
    workspaceScopes,    \* the secret scopes that exist in the workspace
    sc_pc,              \* get_manageable_scopes_paginated: where the call is
    max_scopes,         \* its parameter
    shared_scopes,      \* its local list of names with the preferred prefix
    regular_scopes,     \* its local list of the other names
    sc_idx,             \* position of the running for loop
    manageable_scopes,  \* its local result list
    probes,             \* log of the "secrets list-acls <scope>" commands issued
    probeManage,        \* scopes whose probe succeeded and reported MANAGE
    scopesResult        \* the list returned

VARIABLES
    files,         \* ChatService: chat_dir, the stored file of every saved chat id
    clock,         \* datetime.now(), as a count of the saves made so far
    lastSaved,     \* the arguments of the last save_chat of every id (history)
    chatCall       \* the last ChatService call and what it returned

VARIABLES
    agent,         \* the AgentService object (its fields)
    agentCall      \* the last AgentService call, its arguments and outcome

VARIABLES
    tool,          \* deploy.py: the running process (position, fields, history)
    appYaml,       \* the file app.yaml in the working directory
    yamlOrigin     \* who wrote app.yaml, and for which names (history)

VARIABLES
    error_msg,     \* display_friendly_error: the failure text handed in
    errorPanel     \* display_friendly_error: the panel it printed

VARIABLES
    secretStore,   \* what dbutils.secrets.get does for the key of the app
    environ,       \* os.environ["OPENAI_API_KEY"]
    keyCall        \* the last get_openai_api_key call and its outcome

VARIABLES
    raw_error,     \* clean_error_message: the text handed in, line by line
    cleanResult    \* clean_error_message: what the last call returned

VARIABLES
    session,       \* app.py: st.session_state (messages, chat_id, chat_name)
    now,           \* datetime.now(), in seconds, at the last reading
    handled,       \* the last handler of app.py that ran, and how it ended
    memoryChat,    \* the chat id each exchange of the memory was made in (history)
    sidebar        \* what the last render_sidebar call of main() did

jsonVars == <<output, jsonResult>>

errorVars == <<error_msg, errorPanel>>

keyVars == <<secretStore, environ, keyCall>>

cleanVars == <<raw_error, cleanResult>>

sessionVars == <<session, now, handled, memoryChat, sidebar>>

deployVars == <<tool, appYaml, yamlOrigin>>

chatVars == <<files, clock, lastSaved, chatCall>>

agentVars == <<agent, agentCall>>

scopeVars == <<workspaceScopes, sc_pc, max_scopes, shared_scopes, regular_scopes,
               sc_idx, manageable_scopes, probes, probeManage, scopesResult>>

vars == <<jsonVars, scopeVars, chatVars, agentVars, deployVars, errorVars, keyVars, cleanVars, sessionVars>>

(***************************************************************************)
(* Bounds of the model                                                     *)
(***************************************************************************)
MaxLen == 5        \* longest command output, in characters
MaxCap == 2        \* largest max_scopes a caller passes
MaxMsgs == 2       \* longest message list handed to save_chat
MaxSaves == 2      \* number of save_chat calls
MaxBuilds == 3     \* number of create_agent calls
MaxMemory == 2     \* exchanges kept in the conversation memory

(***************************************************************************)
(* deploy.py: extract_json_from_output                                     *)
(*                                                                         *)
(* A text is a sequence of one-character strings over JsonChars.  "x" is a *)
(* character that belongs to no JSON value (banner text), "1" is a digit.  *)
(* With this alphabet the JSON values are: numbers 1, 11, ...; strings     *)
(* "..." with the escapes \" and \\; the empty object {}; arrays [] and    *)
(* [v].  Every such value has exactly one text, so a parsed value is       *)
(* represented by the text it was parsed from.                             *)
(***************************************************************************)
JsonChars == {"{", "}", "[", "]", "\"", "\\", "1", "x"}

Openers == {"{", "["}
Closers == {"}", "]"}

\* Python's None
None == [found |-> FALSE, value |-> <<>>]
Some(v) == [found |-> TRUE, value |-> v]

Slice(s, i, j) == IF j < i THEN <<>> ELSE SubSeq(s, i, j)

\* The json module's string scanner, after the opening quote: the index
\* after the closing quote, or 0 when the text is no string.
RECURSIVE ParseString(_, _)
ParseString(s, i) ==
    IF i > Len(s) THEN 0
    ELSE IF s[i] = "\"" THEN i + 1
    ELSE IF s[i] = "\\"
         THEN IF i + 1 <= Len(s) /\ s[i + 1] \in {"\"", "\\"}
              THEN ParseString(s, i + 2)
              ELSE 0
    ELSE ParseString(s, i + 1)

RECURSIVE SkipDigits(_, _)
SkipDigits(s, i) ==
    IF i <= Len(s) /\ s[i] = "1" THEN SkipDigits(s, i + 1) ELSE i

\* The json module's value scanner at index i: the index after the value,
\* or 0 when no value starts there.
RECURSIVE ParseValue(_, _)
ParseValue(s, i) ==
    IF i > Len(s) THEN 0
    ELSE IF s[i] = "1" THEN SkipDigits(s, i)
    ELSE IF s[i] = "\"" THEN ParseString(s, i + 1)
    ELSE IF s[i] = "{"
         THEN IF i + 1 <= Len(s) /\ s[i + 1] = "}" THEN i + 2 ELSE 0
    ELSE IF s[i] = "["
         THEN IF i + 1 <= Len(s) /\ s[i + 1] = "]" THEN i + 2
              ELSE LET j == ParseValue(s, i + 1)
                   IN  IF j # 0 /\ j <= Len(s) /\ s[j] = "]" THEN j + 1 ELSE 0
    ELSE 0

\* json.loads: the whole text must be one value (JSONDecodeError otherwise).
JsonLoads(s) ==
    IF ParseValue(s, 1) = Len(s) + 1 THEN Some(s) ELSE None

RECURSIVE IndexFrom(_, _, _)
IndexFrom(s, c, i) ==
    IF i > Len(s) THEN 0
    ELSE IF s[i] = c THEN i
    ELSE IndexFrom(s, c, i + 1)

\* str.find, 1-based; 0 stands for Python's -1
Find(s, c) == IndexFrom(s, c, 1)

\* a scan that looks for "[" before "{"
FindStartBracketFirst(s) ==
    IF Find(s, "[") # 0 THEN Find(s, "[") ELSE Find(s, "{")

\* start = output.find('{'); if start == -1: start = output.find('[')
FindStart(s) ==
    IF Find(s, "{") # 0 THEN Find(s, "{") ELSE Find(s, "[")

Matches(open, close) ==
    \/ open = "{" /\ close = "}"
    \/ open = "[" /\ close = "]"

\* The bracket-matching loop: for i, char in enumerate(output[start:], start)
RECURSIVE Scan(_, _, _, _, _, _)
Scan(s, start, i, stack, in_string, escape) ==
    IF i > Len(s) THEN None
    ELSE
      LET char == s[i]
          nextEscape == (~escape) /\ char = "\\"
      IN
      IF (~escape) /\ char = "\""
      THEN Scan(s, start, i + 1, stack, ~in_string, nextEscape)
      ELSE IF in_string
      THEN Scan(s, start, i + 1, stack, in_string, nextEscape)
      ELSE IF char \in Openers
      THEN Scan(s, start, i + 1, Append(stack, char), in_string, nextEscape)
      ELSE IF char \in Closers
      THEN IF stack = <<>>
           THEN \* continue: the escape flag is left as it is
                Scan(s, start, i + 1, stack, in_string, escape)
           ELSE IF Matches(stack[Len(stack)], char)
           THEN IF Len(stack) = 1
                THEN JsonLoads(Slice(s, start, i))
                ELSE Scan(s, start, i + 1, SubSeq(stack, 1, Len(stack) - 1),
                          in_string, nextEscape)
           ELSE Scan(s, start, i + 1, stack, in_string, nextEscape)
      ELSE Scan(s, start, i + 1, stack, in_string, nextEscape)

extract_json_from_output(s) ==
    IF s = <<>> THEN None
    ELSE IF JsonLoads(s).found THEN JsonLoads(s)
    ELSE IF FindStart(s) = 0 THEN None
    ELSE Scan(s, FindStart(s), FindStart(s), <<>>, FALSE, FALSE)

NotRun == [found |-> FALSE, value |-> <<"?">>]

JsonIdle == output = <<>> /\ jsonResult = NotRun

\* the external command writes one more character of output
EmitChar(c) ==
    /\ jsonResult = NotRun
    /\ Len(output) < MaxLen
    /\ output' = Append(output, c)
    /\ UNCHANGED jsonResult

\* a caller hands the output to extract_json_from_output
ExtractJson ==
    /\ jsonResult = NotRun
    /\ jsonResult' = extract_json_from_output(output)
    /\ UNCHANGED output

----------------------------------------------------------------------------
(***************************************************************************)
(* deploy.py: get_manageable_scopes_paginated                              *)
(*                                                                         *)
(* Scope names are taken from ScopeUniverse.  RawOrder lists them in the   *)
(* order of Python's string comparison (upper case before lower case),     *)
(* LowerOrder in the order of their lower-cased forms.                     *)
(***************************************************************************)
RawOrder   == <<"Shared-a", "alpha", "shared-b", "shared-c", "unshared">>
LowerOrder == <<"alpha", "Shared-a", "shared-b", "shared-c", "unshared">>

ScopeUniverse == {RawOrder[i] : i \in 1..Len(RawOrder)}

RankIn(order, name) == CHOOSE i \in 1..Len(order) : order[i] = name

\* name.lower().startswith('shared')
HasSharedPrefix(name) == name \in {"Shared-a", "shared-b", "shared-c"}

\* the key of the final sort, (0 if shared else 1, s.lower()), as a number
\* that orders the names as the tuple does
FinalKey(name) ==
    (IF HasSharedPrefix(name) THEN 0 ELSE Len(LowerOrder)) + RankIn(LowerOrder, name)

\* a key on the lower-cased name alone
NameOnlyKey(name) == RankIn(LowerOrder, name)

\* the key of all_scope_names.sort(): the name itself
RawKey(name) == RankIn(RawOrder, name)

\* list.sort (stable) by a table of keys: insertion of x after its equals
RECURSIVE InsertSorted(_, _, _)
InsertSorted(x, s, key) ==
    IF s = <<>> THEN <<x>>
    ELSE IF key[x] < key[s[1]] THEN <<x>> \o s
    ELSE <<s[1]>> \o InsertSorted(x, Tail(s), key)

RECURSIVE SortBy(_, _)
SortBy(s, key) ==
    IF s = <<>> THEN <<>>
    ELSE InsertSorted(s[Len(s)], SortBy(SubSeq(s, 1, Len(s) - 1), key), key)

FinalSortNameOnly(s) == SortBy(s, [n \in ScopeUniverse |-> NameOnlyKey(n)])

\* manageable_scopes.sort(key=lambda s: (0 if shared else 1, s.lower()))
FinalSort(s) == SortBy(s, [n \in ScopeUniverse |-> FinalKey(n)])

\* all_scope_names.sort()
SortNames(s) == SortBy(s, [n \in ScopeUniverse |-> RawKey(n)])

\* The CLI prints a header line and one line per scope; it lists the scopes
\* in an order of its own (here: the reverse of RawOrder).
RECURSIVE ScopeLines(_, _)
ScopeLines(S, i) ==
    IF i = 0 THEN <<>>
    ELSE IF RawOrder[i] \in S
         THEN <<(<<RawOrder[i], "DATABRICKS">>)>> \o ScopeLines(S, i - 1)
         ELSE ScopeLines(S, i - 1)

ListScopesOutput(S) == <<(<<"Scope", "Backend">>)>> \o ScopeLines(S, Len(RawOrder))

\* lines = output.strip().split('\n')[1:]; parts[0] of every non-empty line
RECURSIVE FirstWords(_)
FirstWords(lines) ==
    IF lines = <<>> THEN <<>>
    ELSE IF lines[1] = <<>> THEN FirstWords(Tail(lines))
    ELSE <<lines[1][1]>> \o FirstWords(Tail(lines))

ParseScopeNames(out) == IF out = <<>> THEN <<>> ELSE FirstWords(Tail(out))

IsRegular(name) == ~HasSharedPrefix(name)

\* the first pass with the early stop of the second pass
SharedLoopCapped(idx, shared, manageable, max) ==
    idx <= Len(shared) /\ Len(manageable) < max

\* for scope_name in shared_scopes: (no early stop)
SharedLoopRuns(idx, shared, manageable, max) == idx <= Len(shared)

\* remaining_slots > 0, and inside the loop: if len(manageable) >= max: break
RegularLoopRuns(idx, regular, manageable, max) ==
    /\ max - Len(manageable) > 0
    /\ idx <= Len(regular)
    /\ Len(manageable) < max

ScopesIdle ==
    /\ workspaceScopes = {}
    /\ sc_pc = "idle"
    /\ max_scopes = 0
    /\ shared_scopes = <<>>
    /\ regular_scopes = <<>>
    /\ sc_idx = 0
    /\ manageable_scopes = <<>>
    /\ probes = <<>>
    /\ probeManage = {}
    /\ scopesResult = <<>>

\* Where the call goes once the shared pass is at position idx of `shared`
\* with result list m: on with the shared pass, on to the second pass, or
\* to the final sort and the return.
ScopesContinue(pass, idx, shared, regular, m) ==
    IF pass = "shared" /\ SharedLoopRuns(idx, shared, m, max_scopes)
    THEN /\ sc_pc' = "shared"
         /\ sc_idx' = idx
         /\ scopesResult' = scopesResult
    ELSE LET ridx == IF pass = "shared" THEN 1 ELSE idx
         IN  IF RegularLoopRuns(ridx, regular, m, max_scopes)
             THEN /\ sc_pc' = "regular"
                  /\ sc_idx' = ridx
                  /\ scopesResult' = scopesResult
             ELSE /\ sc_pc' = "done"
                  /\ sc_idx' = ridx
                  /\ scopesResult' = FinalSort(m)

\* offer_existing_scope_selection (or another caller) calls the function
ScopesCall(m) ==
    /\ sc_pc = "idle"
    /\ sc_pc' = "list"
    /\ max_scopes' = m
    /\ UNCHANGED <<workspaceScopes, shared_scopes, regular_scopes, sc_idx,
                   manageable_scopes, probes, probeManage, scopesResult>>

\* "secrets list-scopes" fails: return []
ListScopesFails ==
    /\ sc_pc = "list"
    /\ sc_pc' = "done"
    /\ scopesResult' = <<>>
    /\ UNCHANGED <<workspaceScopes, max_scopes, shared_scopes, regular_scopes,
                   sc_idx, manageable_scopes, probes, probeManage>>

\* "secrets list-scopes" succeeds: parse, sort, partition
ListScopesSucceeds ==
    /\ sc_pc = "list"
    /\ LET all_scope_names ==
               SortNames(ParseScopeNames(ListScopesOutput(workspaceScopes)))
           shared  == SelectSeq(all_scope_names, HasSharedPrefix)
           regular == SelectSeq(all_scope_names, IsRegular)
       IN  /\ shared_scopes' = shared
           /\ regular_scopes' = regular
           /\ ScopesContinue("shared", 1, shared, regular, <<>>)
    /\ UNCHANGED <<workspaceScopes, max_scopes, manageable_scopes, probes,
                   probeManage>>

\* one "secrets list-acls <scope>" command (timeout 10) and the code up to
\* the next command; outcome: "manage" (succeeded, output holds MANAGE),
\* "other" (succeeded without MANAGE), "fail" (failed or timed out)
ProbeScope(outcome) ==
    /\ sc_pc \in {"shared", "regular"}
    /\ LET list == IF sc_pc = "shared" THEN shared_scopes ELSE regular_scopes
           scope_name == list[sc_idx]
           m == IF outcome = "manage"
                THEN Append(manageable_scopes, scope_name)
                ELSE manageable_scopes
       IN  /\ probes' = Append(probes, scope_name)
           /\ probeManage' = IF outcome = "manage"
                             THEN probeManage \cup {scope_name}
                             ELSE probeManage
           /\ manageable_scopes' = m
           /\ ScopesContinue(sc_pc, sc_idx + 1, shared_scopes, regular_scopes, m)
    /\ UNCHANGED <<workspaceScopes, max_scopes, shared_scopes, regular_scopes>>

ProbeOutcomes == {"manage", "other", "fail"}

----------------------------------------------------------------------------
(***************************************************************************)
(* src/services/chat_service.py: ChatService                               *)
(*                                                                         *)
(* A message handed to save_chat is a dict {role, content} (kind "dict")   *)
(* or a LangChain message object with .type and .content (kind "obj").     *)
(* A stored message is the JSON object {role, content}; a loaded message   *)
(* is a LangChain message object, written [role |-> its type, content].    *)
(***************************************************************************)
ChatIds == {"c1", "c2"}
NoneName == "<None>"
ChatNames == {NoneName, "Chat A"}
Contents == {"hello", "hi there"}

\* the records the app appends, and HumanMessage objects
MessageUniverse ==
    [kind : {"dict"}, role : {"user", "assistant"}, content : Contents]
      \cup [kind : {"obj"}, role : {"human"}, content : Contents]

RECURSIVE SeqsUpTo(_, _)
SeqsUpTo(S, n) ==
    IF n = 0 THEN {<<>>}
    ELSE LET shorter == SeqsUpTo(S, n - 1)
         IN  shorter \cup {Append(s, x) : s \in {q \in shorter : Len(q) = n - 1}, x \in S}

MessageLists == SeqsUpTo(MessageUniverse, MaxMsgs)

\* formatted_messages: {"role": m["role"] or m.type, "content": ...}
FormatMessage(m) == [role |-> m.role, content |-> m.content]

RECURSIVE FormatMessages(_)
FormatMessages(ms) ==
    IF ms = <<>> THEN <<>>
    ELSE <<FormatMessage(ms[1])>> \o FormatMessages(Tail(ms))

\* load_chat: a stored message becomes SystemMessage, HumanMessage or
\* AIMessage when its role is "system", "human" or "ai"; a message with
\* any other role matches no branch and is left out
RECURSIVE RebuildMessages(_)
RebuildMessages(stored) ==
    IF stored = <<>> THEN <<>>
    ELSE IF stored[1].role \in {"system", "human", "ai"}
         THEN <<[role |-> stored[1].role, content |-> stored[1].content]>>
                \o RebuildMessages(Tail(stored))
         ELSE RebuildMessages(Tail(stored))

NoCall == [op |-> "none", id |-> "", name |-> NoneName, messages |-> <<>>,
           listing |-> <<>>]

ChatIdle ==
    /\ files = <<>>
    /\ clock = 0
    /\ lastSaved = <<>>
    /\ chatCall = NoCall

Extend(f, k, v) == [x \in (DOMAIN f) \cup {k} |-> IF x = k THEN v ELSE f[x]]
Remove(f, k) == [x \in (DOMAIN f) \ {k} |-> f[x]]

\* save_chat(chat_id, chat_name, messages): json.dump of the whole chat
SaveChat(id, name, messages) ==
    /\ clock < MaxSaves
    /\ clock' = clock + 1
    /\ files' = Extend(files, id, [id |-> id, name |-> name,
                                   messages |-> FormatMessages(messages),
                                   timestamp |-> clock + 1])
    /\ lastSaved' = Extend(lastSaved, id, [name |-> name, messages |-> messages])
    /\ chatCall' = [NoCall EXCEPT !.op = "save", !.id = id]

\* load_chat(chat_id)
LoadChat(id) ==
    /\ chatCall' =
          IF id \in DOMAIN files
          THEN [NoCall EXCEPT !.op = "load", !.id = id,
                              !.name = files[id].name,
                              !.messages = RebuildMessages(files[id].messages)]
          ELSE [NoCall EXCEPT !.op = "load", !.id = id]
    /\ UNCHANGED <<files, clock, lastSaved>>

\* sorted(chats, key=timestamp, reverse=True): newest first
RECURSIVE NewestFirst(_)
NewestFirst(f) ==
    IF DOMAIN f = {} THEN <<>>
    ELSE LET newest == CHOOSE k \in DOMAIN f :
                          \A j \in DOMAIN f : f[j].timestamp <= f[k].timestamp
         IN  <<[id |-> f[newest].id, name |-> f[newest].name,
                timestamp |-> f[newest].timestamp]>>
               \o NewestFirst(Remove(f, newest))

\* get_saved_chats()
GetSavedChats ==
    /\ chatCall' = [NoCall EXCEPT !.op = "list", !.listing = NewestFirst(files)]
    /\ UNCHANGED <<files, clock, lastSaved>>

\* a delete_chat that clears the whole chat directory
DeleteChatAll(id) ==
    /\ files' = <<>>
    /\ lastSaved' = <<>>
    /\ chatCall' = [NoCall EXCEPT !.op = "delete", !.id = id]
    /\ UNCHANGED clock

\* delete_chat(chat_id): unlink the file if it exists
DeleteChat(id) ==
    /\ files' = IF id \in DOMAIN files THEN Remove(files, id) ELSE files
    /\ lastSaved' = IF id \in DOMAIN lastSaved THEN Remove(lastSaved, id) ELSE lastSaved
    /\ chatCall' = [NoCall EXCEPT !.op = "delete", !.id = id]
    /\ UNCHANGED clock

----------------------------------------------------------------------------
(***************************************************************************)
(* src/services/agent_service.py: AgentService                             *)
(*                                                                         *)
(* A temperature argument is a number (in tenths: val 7 is 0.7), a value   *)
(* that is no number (kind "str"), or None.  The objects create_agent      *)
(* builds (LLM, memory, executor) carry the number of the build.           *)
(***************************************************************************)
TempScale == 10    \* the temperature 1.0, in tenths

NoneTemp == [kind |-> "none", val |-> 0]
Num(v) == [kind |-> "num", val |-> v]
TempArgs == {Num(v) : v \in {-1, 0, 7, TempScale, TempScale + 1}}
              \cup {[kind |-> "str", val |-> 0], NoneTemp}

NoneArg == "<None>"
ModelNames == {"gpt-3.5-turbo", "gpt-4"}
Prompts == {"prompt 1", "prompt 2"}
UserInputs == {"", "question"}

\* what agent_executor.invoke does: it returns, or it raises one of these
InvokeErrors == {"RateLimitError", "TimeoutError"}
InvokeOutcomes == {"ok"} \cup InvokeErrors

\* validate_temperature: TRUE when it raises ValueError
validate_temperature_raises(temperature) ==
    IF temperature.kind # "num" THEN TRUE
    ELSE temperature.val < 0 \/ temperature.val > TempScale

NoObject == [build |-> 0]

\* the object before __init__ has run
NoAgent ==
    [constructed |-> FALSE, model_name |-> NoneArg, temperature |-> NoneTemp,
     system_prompt |-> NoneArg, llm |-> NoObject, memory |-> NoObject,
     agent_executor |-> NoObject, history |-> <<>>, builds |-> 0]

\* a create_agent that builds a new LLM and executor around the memory
\* object it already has
create_agent_keep_memory(a) ==
    [a EXCEPT !.builds = a.builds + 1,
              !.llm = [build |-> a.builds + 1, model_name |-> a.model_name,
                       temperature |-> a.temperature],
              !.agent_executor = [build |-> a.builds + 1,
                                  system_prompt |-> a.system_prompt]]

\* create_agent: a new ChatOpenAI, a new ConversationBufferMemory (empty)
\* and a new AgentExecutor from the current settings
create_agent(a) ==
    [a EXCEPT !.builds = a.builds + 1,
              !.llm = [build |-> a.builds + 1, model_name |-> a.model_name,
                       temperature |-> a.temperature],
              !.memory = [build |-> a.builds + 1],
              !.history = <<>>,
              !.agent_executor = [build |-> a.builds + 1,
                                  system_prompt |-> a.system_prompt]]

\* __init__: validate, set the fields, create_agent
agent_init(model_name, temperature, system_prompt) ==
    IF validate_temperature_raises(temperature)
    THEN [raised |-> "ValueError", agent |-> NoAgent]
    ELSE [raised |-> "",
          agent |-> create_agent([NoAgent EXCEPT !.constructed = TRUE,
                                                 !.model_name = model_name,
                                                 !.temperature = temperature,
                                                 !.system_prompt = system_prompt])]

\* an update_configuration that stores the model name and the prompt
\* before it validates the temperature
update_configuration_late_check(a, model_name, temperature, system_prompt) ==
    LET a1 == IF model_name # NoneArg THEN [a EXCEPT !.model_name = model_name] ELSE a
        a2 == IF system_prompt # NoneArg
              THEN [a1 EXCEPT !.system_prompt = system_prompt] ELSE a1
    IN  IF temperature # NoneTemp /\ validate_temperature_raises(temperature)
        THEN [raised |-> "ValueError", agent |-> a2]
        ELSE LET a3 == IF temperature # NoneTemp
                       THEN [a2 EXCEPT !.temperature = temperature] ELSE a2
             IN  [raised |-> "", agent |-> create_agent(a3)]

\* an update_configuration that assigns its three arguments as they come,
\* None included
update_configuration_assign_all(a, model_name, temperature, system_prompt) ==
    IF temperature # NoneTemp /\ validate_temperature_raises(temperature)
    THEN [raised |-> "ValueError", agent |-> a]
    ELSE [raised |-> "",
          agent |-> create_agent([a EXCEPT !.temperature = temperature,
                                           !.model_name = model_name,
                                           !.system_prompt = system_prompt])]

\* update_configuration(model_name=None, temperature=None, system_prompt=None)
update_configuration(a, model_name, temperature, system_prompt) ==
    IF temperature # NoneTemp /\ validate_temperature_raises(temperature)
    THEN [raised |-> "ValueError", agent |-> a]
    ELSE LET a1 == IF temperature # NoneTemp
                   THEN [a EXCEPT !.temperature = temperature] ELSE a
             a2 == IF model_name # NoneArg
                   THEN [a1 EXCEPT !.model_name = model_name] ELSE a1
             a3 == IF system_prompt # NoneArg
                   THEN [a2 EXCEPT !.system_prompt = system_prompt] ELSE a2
         IN  [raised |-> "", agent |-> create_agent(a3)]

NoAgentCall == [op |-> "none", model_name |-> NoneArg, temperature |-> NoneTemp,
                system_prompt |-> NoneArg, input |-> "", raised |-> "",
                response |-> NoneArg, invoked |-> 0, outcome |-> ""]

AgentIdle ==
    /\ agent = NoAgent
    /\ agentCall = NoAgentCall

\* AgentService(model_name, temperature, system_prompt, openai_api_key)
AgentInit(model_name, temperature, system_prompt) ==
    /\ ~agent.constructed
    /\ LET r == agent_init(model_name, temperature, system_prompt)
       IN  /\ agent' = r.agent
           /\ agentCall' = [NoAgentCall EXCEPT !.op = "init",
                                               !.model_name = model_name,
                                               !.temperature = temperature,
                                               !.system_prompt = system_prompt,
                                               !.raised = r.raised]

\* agent_service.update_configuration(...)
UpdateConfiguration(model_name, temperature, system_prompt) ==
    /\ agent.constructed
    /\ agent.builds < MaxBuilds
    /\ LET r == update_configuration(agent, model_name, temperature, system_prompt)
       IN  /\ agent' = r.agent
           /\ agentCall' = [NoAgentCall EXCEPT !.op = "update",
                                               !.model_name = model_name,
                                               !.temperature = temperature,
                                               !.system_prompt = system_prompt,
                                               !.raised = r.raised]

\* a get_response that calls the executor a second time when the first
\* invocation raised, and hides the exception
get_response_retry(user_input, outcome) ==
    IF user_input = ""
    THEN [raised |-> "ValueError", response |-> NoneArg, invoked |-> 0]
    ELSE IF outcome = "ok"
    THEN [raised |-> "", response |-> "answer", invoked |-> 1]
    ELSE [raised |-> "", response |-> "answer", invoked |-> 2]

\* get_response(user_input), given what agent_executor.invoke does: the
\* input check, one invocation, and "raise e" of what it raised
get_response(user_input, outcome) ==
    IF user_input = ""
    THEN [raised |-> "ValueError", response |-> NoneArg, invoked |-> 0]
    ELSE IF outcome = "ok"
    THEN [raised |-> "", response |-> "answer", invoked |-> 1]
    ELSE [raised |-> outcome, response |-> NoneArg, invoked |-> 1]

\* agent_service.get_response(user_input); the executor stores the
\* exchange in its memory when its invocation returns
GetResponse(user_input, outcome) ==
    /\ agent.constructed
    /\ Len(agent.history) < MaxMemory
    /\ LET r == get_response(user_input, outcome)
       IN  /\ agent' = IF r.invoked > 0 /\ outcome = "ok"
                       THEN [agent EXCEPT !.history =
                               Append(@, [input |-> user_input, output |-> "answer"])]
                       ELSE agent
           /\ agentCall' = [NoAgentCall EXCEPT !.op = "get_response",
                                               !.input = user_input,
                                               !.outcome = outcome,
                                               !.raised = r.raised,
                                               !.response = r.response,
                                               !.invoked = r.invoked]

----------------------------------------------------------------------------
(***************************************************************************)
(* deploy.py: the deployment tool (main and the DatabricksDeployer         *)
(* methods it dispatches to, and run)                                      *)
(*                                                                         *)
(* `tool` is the running process: the position in the code (pc, with the   *)
(* return labels of the methods being executed in stack), the deployer's   *)
(* fields, and what this run did so far.  Every action is one external     *)
(* command or one prompt, with its outcome, and the code up to the next    *)
(* one.  `appYaml` is the file app.yaml, which outlives the process.       *)
(***************************************************************************)
NoneStr == "<None>"

MainCommands == {"deploy", "redeploy", "status", "stop", "start", "delete"}

DefaultApp    == "user-ai-chatbot"      \* f"{self.user_name}-ai-chatbot"
DefaultScope  == "user-chatbot"         \* f"{self.user_name}-chatbot"
DefaultSecret == "openai_api_key"
FallbackApp   == "anand-rao-ai-chatbot"

AppChoices    == {DefaultApp, "my-app"}
ScopeChoices  == {DefaultScope, "my-scope"}
SecretChoices == {DefaultSecret, "my_key"}

\* the commands that change the workspace
MutatingCommands ==
    {"secrets create-scope", "secrets put-secret", "apps create", "sync",
     "apps sync", "apps deploy", "apps start", "apps stop", "apps delete"}

start_retries == 20          \* retries = 20
delete_max_attempts == 30    \* max_attempts = 30

(***************************************************************************)
(* app.yaml.  A file is a sequence of lines [indent, key, value]; a value  *)
(* is a sequence of text pieces, so that a secret reference reads          *)
(* <<"{{secrets/", scope, "/", key, "}}">>.                                *)
(***************************************************************************)
NoFile == <<>>

Line(indent, key, value) == [indent |-> indent, key |-> key, value |-> value]

\* yaml.dump(config): one top-level "key: value" line per key, keys sorted
YamlDump(config) ==
    << Line(0, "app_name", <<config.app_name>>),
       Line(0, "secret_key", <<config.secret_key>>),
       Line(0, "secret_scope", <<config.secret_scope>>),
       Line(0, "workspace_url", <<config.workspace_url>>) >>

\* app_yaml_content of configure_app
AppYamlTemplate(scope_name, secret_name) ==
    << Line(0, "command", <<"['streamlit', 'run', 'app.py']">>),
       Line(0, "env", <<>>),
       Line(1, "name", <<"OPENAI_API_KEY">>),
       Line(1, "value", <<"{{secrets/", scope_name, "/", secret_name, "}}">>),
       Line(1, "name", <<"STREAMLIT_SERVER_PORT">>),
       Line(1, "value", <<"8000">>),
       Line(0, "permissions", <<>>),
       Line(1, "group_name", <<"users">>),
       Line(0, "resources", <<>>),
       Line(1, "name", <<"default-sql-warehouse">>) >>

\* does the value hold {{secrets/<scope>/<key>}} ?
IsSecretRef(value) ==
    /\ Len(value) = 5
    /\ value[1] = "{{secrets/" /\ value[3] = "/" /\ value[5] = "}}"

\* re.search(r'{{secrets/([^/]+)/([^}]+)}}', yaml_content): the first match
RECURSIVE SecretMatch(_)
SecretMatch(content) ==
    IF content = <<>> THEN <<>>
    ELSE IF IsSecretRef(content[1].value)
         THEN <<content[1].value[2], content[1].value[4]>>
         ELSE SecretMatch(Tail(content))

\* yaml.safe_load(yaml_content)["app_name"], when the document is a
\* mapping with that key
RECURSIVE TopLevelValue(_, _)
TopLevelValue(content, key) ==
    IF content = <<>> THEN <<>>
    ELSE IF content[1].indent = 0 /\ content[1].key = key
         THEN content[1].value
         ELSE TopLevelValue(Tail(content), key)

NoLoad == [done |-> FALSE, ok |-> FALSE, scope_name |-> NoneStr,
           secret_name |-> NoneStr, app_name |-> NoneStr]

\* load_config_from_yaml
load_config_from_yaml(content) ==
    IF content = NoFile
    THEN [NoLoad EXCEPT !.done = TRUE]
    ELSE IF SecretMatch(content) = <<>>
    THEN [NoLoad EXCEPT !.done = TRUE]
    ELSE [done |-> TRUE, ok |-> TRUE,
          scope_name |-> SecretMatch(content)[1],
          secret_name |-> SecretMatch(content)[2],
          app_name |-> IF TopLevelValue(content, "app_name") # <<>>
                       THEN TopLevelValue(content, "app_name")[1]
                       ELSE FallbackApp]

NoOrigin == [writer |-> "none", scope_name |-> NoneStr, secret_name |-> NoneStr,
             app_name |-> NoneStr]

(***************************************************************************)
(* The process                                                             *)
(***************************************************************************)
NoTool ==
    [pc |-> "idle", stack |-> <<>>, val |-> "None", cmd |-> "none",
     dry_run |-> FALSE, user_email |-> NoneStr, workspace_url |-> NoneStr,
     app_name |-> NoneStr, scope_name |-> NoneStr, secret_name |-> NoneStr,
     attempt |-> 0, awaited |-> FALSE, ret |-> "None", exitCode |-> -1,
     issued |-> <<>>, lastStep |-> [cmd |-> "none", result |-> "none"],
     confirmed |-> {}, yamlTouched |-> FALSE, lastLoad |-> NoLoad, runs |-> 0]

DeployIdle ==
    /\ tool = NoTool
    /\ appYaml = NoFile
    /\ yamlOrigin = NoOrigin

Bool(b) == IF b THEN "True" ELSE "False"

UserEmail == "user@example.com"
\* the host each discovery method reads from its command's output
WorkspaceUrl ==
    [profiles |-> "https://profiles.example.com",
     config   |-> "https://config.example.com",
     legacy   |-> "https://legacy.example.com",
     status   |-> "https://status.example.com"]

\* no timeout= argument (timeout=None): the call waits for ever
NoTimeout == 0

Goto(t, l) == [t EXCEPT !.pc = l]
Call(t, l, back) == [t EXCEPT !.pc = l, !.stack = <<back>> \o @]

\* the status the process ends with when the command's method returned v:
\* main drops the value and returns, so the interpreter exits with 0
ExitStatus(v) == 0

\* the method main (or the caller of run) invoked returns v
Finish(t, v) ==
    [t EXCEPT !.pc = "exit", !.stack = <<>>, !.val = v, !.ret = v,
              !.exitCode = IF t.cmd \in MainCommands THEN ExitStatus(v) ELSE -1]

\* an external command is started (run_databricks_command or Popen)
Issue(t, command, timeout) ==
    [t EXCEPT !.issued = Append(@, [cmd |-> command, timeout |-> timeout])]

\* the last command issued was a create, sync or deploy step and ended
\* with `result` ("ok", "exists" for "already exists", or "fail")
Outcome(t, result) ==
    [t EXCEPT !.lastStep = [cmd |-> t.issued[Len(t.issued)].cmd,
                            result |-> result]]

\* the user answers yes to a confirmation prompt
Yes(t, prompt) == [t EXCEPT !.confirmed = @ \cup {prompt}]

IsMutating(c) == c.cmd \in MutatingCommands
Mutations(t) == SelectSeq(t.issued, IsMutating)

has_user(t) == t.user_email # NoneStr
has_workspace(t) == t.workspace_url # NoneStr

\* show_connection_info up to its first command, given what is known
SciEnter(t, back) ==
    Call(t,
         IF (~t.dry_run) /\ (~has_user(t) \/ ~has_workspace(t))
         THEN (IF ~has_user(t) THEN "sci_user" ELSE "sci_profiles")
         ELSE "sci_version",
         back)

\* start_app up to its first command
StartEntry(t) == Call(t, "pre_version", "start_after_pre")

(***************************************************************************)
(* Resume(t): the code that runs when a method returns t.val to the point  *)
(* t.pc of its caller, up to the caller's next command, prompt or file     *)
(* access ("if not self.x(): return False" and what follows).              *)
(***************************************************************************)
RECURSIVE Resume(_)

Return(t, v) ==
    Resume([t EXCEPT !.pc = Head(t.stack), !.stack = Tail(@), !.val = v])

OrFalse(t, next) == IF t.val = "True" THEN next ELSE Return(t, "False")

Resume(t) ==
    CASE t.pc = "main" -> Finish(t, t.val)
      \* deploy
      [] t.pc = "deploy_after_pre" -> OrFalse(t, Goto(t, "deploy_name"))
      [] t.pc = "deploy_after_scope" ->
            OrFalse(t, Call(t, "cf_name", "deploy_after_secret"))
      [] t.pc = "deploy_after_secret" -> OrFalse(t, Goto(t, "deploy_write"))
      \* start_app
      [] t.pc = "start_after_pre" ->
            OrFalse(t, Call(t, "load", "start_after_load"))
      [] t.pc = "start_after_load" -> OrFalse(t, Goto(t, "start_probe"))
      [] t.pc = "start_after_sci" -> OrFalse(t, Goto(t, "start_cmd"))
      \* stop_app
      [] t.pc = "stop_after_pre" ->
            OrFalse(t, Call(t, "load", "stop_after_load"))
      [] t.pc = "stop_after_load" -> OrFalse(t, SciEnter(t, "stop_after_sci"))
      [] t.pc = "stop_after_sci" -> OrFalse(t, Goto(t, "stop_confirm"))
      \* delete_app
      [] t.pc = "delete_after_pre" ->
            OrFalse(t, Call(t, "load", "delete_after_load"))
      [] t.pc = "delete_after_load" ->
            OrFalse(t, SciEnter(t, "delete_after_sci"))
      [] t.pc = "delete_after_sci" -> OrFalse(t, Goto(t, "delete_confirm"))
      \* redeploy
      [] t.pc = "redeploy_after_pre" ->
            OrFalse(t, Call(t, "load", "redeploy_after_load"))
      [] t.pc = "redeploy_after_load" ->
            OrFalse(t, SciEnter(t, "redeploy_after_sci"))
      [] t.pc = "redeploy_after_sci" -> OrFalse(t, Goto(t, "redeploy_confirm"))
      \* show_status: the result of load_config_from_yaml is not checked
      [] t.pc = "status_after_load" -> SciEnter(t, "status_after_sci")
      [] t.pc = "status_after_sci" ->
            OrFalse(t, IF t.app_name = NoneStr THEN Goto(t, "find_app")
                       ELSE Goto(t, "status_get"))
      \* run
      [] t.pc = "run_after_pre" -> OrFalse(t, SciEnter(t, "run_after_sci"))
      [] t.pc = "run_after_sci" -> OrFalse(t, Goto(t, "run_list"))
      [] t.pc = "run_after_scope" ->
            OrFalse(t, Call(t, "cf_name", "run_after_secret"))
      [] t.pc = "run_after_secret" -> OrFalse(t, Goto(t, "ca_name"))
      [] OTHER -> t

\* a step that leaves app.yaml alone
Step(label, t) ==
    /\ tool.pc = label
    /\ tool' = t
    /\ UNCHANGED <<appYaml, yamlOrigin>>

\* ----- check_prerequisites ----------------------------------------------
\* "version"
PreVersion(ok) ==
    Step("pre_version",
         LET t == Issue(tool, "version", NoTimeout)
         IN  IF ok THEN Goto(t, "pre_user") ELSE Return(t, "False"))

\* "current-user me --output json" and the parsing of the user
PreUser(o) ==
    Step("pre_user",
         LET t == Issue(tool, "current-user me", NoTimeout)
         IN  IF o = "ok"
             THEN Goto([t EXCEPT !.user_email = UserEmail,
                                 !.workspace_url = NoneStr], "pre_profiles")
             ELSE Return(t, "False"))

\* Method 1: "auth profiles --output json"
PreProfiles(o) ==
    Step("pre_profiles",
         LET t == Issue(tool, "auth profiles --output json", NoTimeout)
         IN  IF o = "url"
             THEN Return([t EXCEPT !.workspace_url = WorkspaceUrl.profiles],
                         "True")
             ELSE Goto(t, "pre_config"))

\* Method 2 without its result being tested before Method 3
PreConfigThenLegacy(o) ==
    Step("pre_config",
         LET t == Issue(tool, "config get", NoTimeout)
         IN  IF o = "url"
             THEN Goto([t EXCEPT !.workspace_url = WorkspaceUrl.config],
                       "pre_legacy")
             ELSE Goto(t, "pre_legacy"))

\* Method 2: "config get --output json"
PreConfig(o) ==
    Step("pre_config",
         LET t == Issue(tool, "config get", NoTimeout)
         IN  IF o = "url"
             THEN Return([t EXCEPT !.workspace_url = WorkspaceUrl.config],
                         "True")
             ELSE Goto(t, "pre_legacy"))

\* Method 3: "auth profiles", parsed as text
PreLegacy(o) ==
    Step("pre_legacy",
         LET t == Issue(tool, "auth profiles", NoTimeout)
         IN  IF o = "url"
             THEN Return([t EXCEPT !.workspace_url = WorkspaceUrl.legacy],
                         "True")
             ELSE Return(t, "False"))

\* ----- show_connection_info ---------------------------------------------
SciUser(o) ==
    Step("sci_user",
         LET i == Issue(tool, "current-user me", NoTimeout)
             t == IF o = "ok" THEN [i EXCEPT !.user_email = UserEmail] ELSE i
         IN  Goto(t, IF has_workspace(t) THEN "sci_version" ELSE "sci_profiles"))

SciProfiles(o) ==
    Step("sci_profiles",
         LET t == Issue(tool, "auth profiles --output json", NoTimeout)
         IN  IF o = "url"
             THEN Goto([t EXCEPT !.workspace_url = WorkspaceUrl.profiles],
                       "sci_version")
             ELSE Goto(t, "sci_config"))

SciConfig(o) ==
    Step("sci_config",
         LET t == Issue(tool, "config get", NoTimeout)
         IN  IF o = "url"
             THEN Goto([t EXCEPT !.workspace_url = WorkspaceUrl.config],
                       "sci_version")
             ELSE Goto(t, "sci_wsstatus"))

SciWsStatus(o) ==
    Step("sci_wsstatus",
         LET t == Issue(tool, "workspace get-status", NoTimeout)
         IN  IF o = "url"
             THEN Goto([t EXCEPT !.workspace_url = WorkspaceUrl.status],
                       "sci_version")
             ELSE Goto(t, "sci_version"))

\* "version", then the confirmation prompt when there is a workspace and
\* this is no dry run
SciVersion(ok) ==
    Step("sci_version",
         LET t == Issue(tool, "version", NoTimeout)
         IN  IF has_workspace(t) /\ ~t.dry_run
             THEN Goto(t, "sci_confirm")
             ELSE Return(t, Bool(has_user(t) /\ has_workspace(t))))

SciConfirm(yes) ==
    Step("sci_confirm",
         IF yes
         THEN Return(Yes(tool, "workspace"), Bool(has_user(tool) /\ has_workspace(tool)))
         ELSE Return(tool, "False"))

\* ----- configure_scope --------------------------------------------------
\* the scope name: the default in a dry run, the user's answer otherwise
CsName(name) ==
    /\ tool.dry_run => name = DefaultScope
    /\ Step("cs_name", Goto([tool EXCEPT !.scope_name = name], "cs_list"))

\* "secrets list-scopes"
CsList(o) ==
    Step("cs_list",
         LET t == Issue(tool, "secrets list-scopes", NoTimeout)
         IN  IF o = "present" THEN Goto(t, "cs_acl")
             ELSE IF t.dry_run THEN Return(t, "True")
             ELSE Goto(t, "cs_create"))

\* "secrets list-acls <scope>"
CsAcl(o) ==
    Step("cs_acl",
         Return(Issue(tool, "secrets list-acls", NoTimeout), Bool(o = "manage")))

\* "secrets create-scope <scope>"
CsCreate(o) ==
    Step("cs_create",
         LET t == Issue(tool, "secrets create-scope", NoTimeout)
         IN  IF o = "ok" THEN Return(t, "True")
             ELSE IF o = "limit" THEN Goto(t, "oes_choice")
             ELSE Return(t, "False"))

\* offer_existing_scope_selection: continue or exit
OesChoice(c) ==
    Step("oes_choice",
         IF c = "exit" THEN Return(tool, "False") ELSE Goto(tool, "oes_discover"))

\* get_manageable_scopes_paginated(max_scopes=20): a list-scopes command
\* and list-acls probes (timeout=10); what it returns is the subject of
\* SpecScopes
OesDiscover(found) ==
    Step("oes_discover",
         LET t == Issue(tool, "secrets list-scopes", NoTimeout)
         IN  IF found
             THEN Goto(Issue(t, "secrets list-acls", 10), "oes_select")
             ELSE Return(t, "False"))

\* the selection prompt: "q", a valid index, or anything else (asked again)
OesSelect(c) ==
    Step("oes_select",
         IF c = "q" THEN Return(tool, "False")
         ELSE IF c = "index"
         THEN Return([tool EXCEPT !.scope_name = "existing-scope"], "True")
         ELSE tool)

\* ----- configure_secret -------------------------------------------------
CfName(name) ==
    /\ tool.dry_run => name = DefaultSecret
    /\ Step("cf_name", Goto([tool EXCEPT !.secret_name = name], "cf_list"))

\* "secrets list-secrets <scope>"
CfList(o) ==
    Step("cf_list",
         LET t == Issue(tool, "secrets list-secrets", NoTimeout)
         IN  IF t.dry_run THEN Return(t, "True")
             ELSE IF o = "present" THEN Goto(t, "cf_use_existing")
             ELSE Goto(t, "cf_put"))

\* "Use existing secret?"
CfUseExisting(yes) ==
    Step("cf_use_existing",
         IF yes THEN Return(Yes(tool, "use existing secret"), "True")
         ELSE Goto(tool, "cf_put"))

\* the prompt for the key and "secrets put-secret <scope> <secret>"
CfPut(ok) ==
    Step("cf_put",
         Return(Issue(tool, "secrets put-secret", NoTimeout), Bool(ok)))

\* ----- load_config_from_yaml (the method) -------------------------------
LoadConfig ==
    LET r == load_config_from_yaml(appYaml)
        t == IF r.ok
             THEN [tool EXCEPT !.lastLoad = r, !.scope_name = r.scope_name,
                               !.secret_name = r.secret_name,
                               !.app_name = r.app_name]
             ELSE [tool EXCEPT !.lastLoad = r]
    IN  Step("load", Return(t, Bool(r.ok)))

\* ----- deploy -----------------------------------------------------------
\* "Enter a name for your app"
DeployName(name) ==
    Step("deploy_name", Goto([tool EXCEPT !.app_name = name], "deploy_list"))

\* "apps list --output json": does the app exist already?
DeployList(o) ==
    Step("deploy_list",
         LET t == Issue(tool, "apps list", NoTimeout)
         IN  IF o \in {"exists", "badjson"} THEN Return(t, "False")
             ELSE Call(t, "cs_name", "deploy_after_scope"))

\* with open("app.yaml", "w") as f: yaml.dump(config, f)
DeployWriteYaml ==
    /\ tool.pc = "deploy_write"
    /\ appYaml' = YamlDump([workspace_url |-> tool.workspace_url,
                            app_name |-> tool.app_name,
                            secret_scope |-> tool.scope_name,
                            secret_key |-> tool.secret_name])
    /\ yamlOrigin' = [writer |-> "deploy", scope_name |-> tool.scope_name,
                      secret_name |-> tool.secret_name,
                      app_name |-> tool.app_name]
    /\ tool' = Goto([tool EXCEPT !.yamlTouched = TRUE], "deploy_create")

\* "apps create <app> --no-wait"
DeployCreate(ok) ==
    Step("deploy_create",
         LET t == Outcome(Issue(tool, "apps create", NoTimeout),
                          IF ok THEN "ok" ELSE "fail")
         IN  IF ok THEN Goto(t, "deploy_sync") ELSE Return(t, "False"))

\* "apps sync <app> --no-wait"
DeploySync(ok) ==
    Step("deploy_sync",
         LET t == Outcome(Issue(tool, "apps sync", NoTimeout),
                          IF ok THEN "ok" ELSE "fail")
         IN  IF ok THEN Goto(t, "deploy_deploy") ELSE Return(t, "False"))

\* "apps deploy <app> --no-wait", then return self.start_app()
DeployDeploy(ok) ==
    Step("deploy_deploy",
         LET t == Outcome(Issue(tool, "apps deploy", NoTimeout),
                          IF ok THEN "ok" ELSE "fail")
         IN  IF ok THEN StartEntry(t) ELSE Return(t, "False"))

\* ----- start_app --------------------------------------------------------
\* "apps get": is the app running already?
StartProbe(o) ==
    Step("start_probe",
         LET t == Issue(tool, "apps get", 30)
         IN  IF o = "running" THEN Return(t, "True")
             ELSE SciEnter(t, "start_after_sci"))

\* "apps start <app>"
StartCmd(ok) ==
    Step("start_cmd",
         LET t == Issue(tool, "apps start", 60)
         IN  IF ok THEN Goto([t EXCEPT !.attempt = 0, !.awaited = FALSE],
                            "start_wait")
             ELSE Return(t, "False"))

\* one round of "for i in range(retries)": a status probe; `awaited`
\* records that the probe showed the app RUNNING with compute ACTIVE
StartWait(o) ==
    Step("start_wait",
         LET t == [Issue(tool, "apps get", 30) EXCEPT !.attempt = @ + 1]
         IN  IF o = "ready" THEN Return([t EXCEPT !.awaited = TRUE], "True")
             ELSE IF t.attempt < start_retries THEN t
             ELSE Return(t, "False"))

\* ----- stop_app ---------------------------------------------------------
\* stop_app going on whatever the answer to its prompt
StopConfirmIgnored(yes) ==
    Step("stop_confirm",
         IF yes THEN Goto(Yes(tool, "stop"), "stop_cmd")
         ELSE Goto(tool, "stop_cmd"))

\* "Are you sure you want to stop the app?"
StopConfirm(yes) ==
    Step("stop_confirm",
         IF yes THEN Goto(Yes(tool, "stop"), "stop_cmd")
         ELSE Return(tool, "False"))

\* "apps stop <app>"
StopCmd(ok) ==
    Step("stop_cmd", Return(Issue(tool, "apps stop", 60), Bool(ok)))

\* ----- delete_app -------------------------------------------------------
DeleteConfirm(yes) ==
    Step("delete_confirm",
         IF yes THEN Goto(Yes(tool, "delete"), "delete_cmd")
         ELSE Return(tool, "False"))

\* "apps delete <app>"
DeleteCmd(ok) ==
    Step("delete_cmd",
         LET t == Issue(tool, "apps delete", NoTimeout)
         IN  IF ok THEN Goto([t EXCEPT !.attempt = 0, !.awaited = FALSE],
                            "delete_wait")
             ELSE Return(t, "False"))

\* delete_app removing app.yaml after the loop however the loop ended
DeleteWaitAlwaysCleans(o) ==
    /\ tool.pc = "delete_wait"
    /\ LET t == Issue(tool, "apps get", NoTimeout)
           cleaned == [t EXCEPT !.yamlTouched = @ \/ appYaml # NoFile]
       IN  IF o = "notfound"
           THEN /\ appYaml' = NoFile
                /\ yamlOrigin' = NoOrigin
                /\ tool' = Return([cleaned EXCEPT !.awaited = TRUE], "True")
           ELSE IF t.attempt + 1 < delete_max_attempts
           THEN /\ UNCHANGED <<appYaml, yamlOrigin>>
                /\ tool' = [t EXCEPT !.attempt = @ + 1]
           ELSE /\ appYaml' = NoFile
                /\ yamlOrigin' = NoOrigin
                /\ tool' = Return([cleaned EXCEPT !.attempt = @ + 1], "False")

\* the loop of delete_app with "while attempt <= max_attempts"
DeleteWaitOneMore(o) ==
    /\ tool.pc = "delete_wait"
    /\ LET t == Issue(tool, "apps get", NoTimeout)
       IN  IF o = "notfound"
           THEN /\ appYaml' = NoFile
                /\ yamlOrigin' = NoOrigin
                /\ tool' = Return([t EXCEPT !.awaited = TRUE,
                                            !.yamlTouched =
                                                @ \/ appYaml # NoFile], "True")
           ELSE /\ UNCHANGED <<appYaml, yamlOrigin>>
                /\ tool' = IF t.attempt + 1 <= delete_max_attempts
                           THEN [t EXCEPT !.attempt = @ + 1]
                           ELSE Return([t EXCEPT !.attempt = @ + 1], "False")

\* one round of "while attempt < max_attempts": a status probe; on
\* "not found" the loop ends and app.yaml is removed (`awaited` records
\* that the probe reported the app as not found)
DeleteWait(o) ==
    /\ tool.pc = "delete_wait"
    /\ LET t == Issue(tool, "apps get", NoTimeout)
       IN  IF o = "notfound"
           THEN /\ appYaml' = NoFile
                /\ yamlOrigin' = NoOrigin
                /\ tool' = Return([t EXCEPT !.awaited = TRUE,
                                            !.yamlTouched =
                                                @ \/ appYaml # NoFile], "True")
           ELSE /\ UNCHANGED <<appYaml, yamlOrigin>>
                /\ tool' = IF t.attempt + 1 < delete_max_attempts
                           THEN [t EXCEPT !.attempt = @ + 1]
                           ELSE Return([t EXCEPT !.attempt = @ + 1], "False")

\* ----- redeploy and sync_and_deploy -------------------------------------
RedeployConfirm(yes) ==
    Step("redeploy_confirm",
         IF yes THEN Goto(Yes(tool, "redeploy"), "sd_sync")
         ELSE Return(tool, "False"))

\* "sync . <workspace_path>"
SdSync(ok) ==
    Step("sd_sync",
         LET t == Outcome(Issue(tool, "sync", 120),
                          IF ok THEN "ok" ELSE "fail")
         IN  IF ok THEN Goto(t, "sd_deploy") ELSE Return(t, "False"))

\* "apps deploy <app> --source-code-path <workspace_path>"
SdDeploy(ok) ==
    Step("sd_deploy",
         LET t == Outcome(Issue(tool, "apps deploy", 600),
                          IF ok THEN "ok" ELSE "fail")
         IN  IF ok THEN Goto(t, "sd_get") ELSE Return(t, "False"))

\* "apps get" for the URL: True whatever it answers
SdGet(ok) ==
    Step("sd_get", Return(Issue(tool, "apps get", 60), "True"))

\* ----- show_status ------------------------------------------------------
StatusVersion(ok) ==
    Step("status_version",
         LET t == Issue(tool, "version", NoTimeout)
         IN  IF ok THEN Call(t, "load", "status_after_load")
             ELSE Return(t, "False"))

\* find_app: "apps list", and the choice among several apps
FindApp(o, name) ==
    Step("find_app",
         LET t == Issue(tool, "apps list", 30)
         IN  IF o = "found"
             THEN Goto([t EXCEPT !.app_name = name], "status_get")
             ELSE Return(t, "False"))

\* display_comprehensive_status: "apps get"
StatusGet(o) ==
    Step("status_get",
         LET t == Issue(tool, "apps get", 60)
         IN  IF o = "ok" THEN Goto(t, "status_history")
             ELSE Return(t, "False"))

\* get_deployment_history: "apps list-deployments"
StatusHistory(ok) ==
    Step("status_history",
         Return(Issue(tool, "apps list-deployments", 30), "True"))

\* ----- run --------------------------------------------------------------
\* "secrets list-scopes": are there scopes named shared-...?
RunList(o) ==
    Step("run_list",
         LET t == Issue(tool, "secrets list-scopes", NoTimeout)
         IN  IF o = "shared" THEN Goto(t, "run_use_shared")
             ELSE Call(t, "cs_name", "run_after_scope"))

\* "Would you like to use a shared scope?": run returns True on yes
RunUseShared(yes) ==
    Step("run_use_shared",
         IF yes
         THEN Return([Yes(tool, "use shared scope")
                         EXCEPT !.scope_name = "existing-scope"], "True")
         ELSE Call(tool, "cs_name", "run_after_scope"))

\* configure_app, show_final_configuration and, in a dry run,
\* show_deployment_summary
ConfigureApp(name) ==
    /\ tool.pc = "ca_name"
    /\ tool.dry_run => name = DefaultApp
    /\ LET t == [tool EXCEPT !.app_name = name]
       IN  IF tool.dry_run
           THEN /\ UNCHANGED <<appYaml, yamlOrigin>>
                /\ tool' = Return(t, "True")
           ELSE /\ appYaml' = AppYamlTemplate(tool.scope_name, tool.secret_name)
                /\ yamlOrigin' = [writer |-> "configure_app",
                                  scope_name |-> tool.scope_name,
                                  secret_name |-> tool.secret_name,
                                  app_name |-> name]
                /\ tool' = Goto([t EXCEPT !.yamlTouched = TRUE], "run_confirm")

\* "Proceed with deployment?"
RunConfirm(yes) ==
    Step("run_confirm",
         IF yes THEN Goto(Yes(tool, "deploy"), "da_create")
         ELSE Return(tool, "False"))

\* deploy_app with the result of "apps create" ignored
DaCreateIgnored(o) ==
    Step("da_create",
         LET t == Outcome(Issue(tool, "apps create", 300), o)
         IN  Goto(t, "da_sync"))

\* deploy_app: "apps create <app>"; "already exists" is no failure
DaCreate(o) ==
    Step("da_create",
         LET t == Outcome(Issue(tool, "apps create", 300), o)
         IN  IF o = "fail" THEN Return(t, "False") ELSE Goto(t, "da_sync"))

DaSync(ok) ==
    Step("da_sync",
         LET t == Outcome(Issue(tool, "sync", 120),
                          IF ok THEN "ok" ELSE "fail")
         IN  IF ok THEN Goto(t, "da_deploy") ELSE Return(t, "False"))

DaDeploy(ok) ==
    Step("da_deploy",
         LET t == Outcome(Issue(tool, "apps deploy", 600),
                          IF ok THEN "ok" ELSE "fail")
         IN  IF ok THEN Goto(t, "da_get") ELSE Return(t, "False"))

DaGet(ok) ==
    Step("da_get", Return(Issue(tool, "apps get", 60), "True"))

\* ----- main -------------------------------------------------------------
MaxRuns == 2

Entries == MainCommands \cup {"run"}

\* a new process: main parses the arguments and calls the command's method
\* (or a caller constructs the deployer and calls run)
MainStart(command, dry) ==
    /\ tool.pc \in {"idle", "exit"}
    /\ tool.runs < MaxRuns
    /\ UNCHANGED <<appYaml, yamlOrigin>>
    /\ LET t == [NoTool EXCEPT !.cmd = command, !.dry_run = dry,
                               !.runs = tool.runs + 1, !.stack = <<"main">>]
       IN  tool' =
             CASE command = "deploy" -> Call(t, "pre_version", "deploy_after_pre")
               [] command = "redeploy" -> Call(t, "pre_version", "redeploy_after_pre")
               [] command = "status" -> Goto(t, "status_version")
               [] command = "stop" -> Call(t, "pre_version", "stop_after_pre")
               [] command = "start" -> StartEntry(t)
               [] command = "delete" -> Call(t, "pre_version", "delete_after_pre")
               [] command = "run" -> Call(t, "pre_version", "run_after_pre")

----------------------------------------------------------------------------
(***************************************************************************)
(* src/deploy.py: display_friendly_error                                   *)
(*                                                                         *)
(* A failure text is a sequence of pieces.  The function tests whether a   *)
(* keyword occurs in the lower-cased text; which of the suggestion lists   *)
(* it prints is told by error_type.                                        *)
(***************************************************************************)
MaxWords == 3      \* longest failure text, in pieces

ErrorWords ==
    {"Max Limit", "scope", "PERMISSION", "inaccessible", "Not Found",
     "Invalid", "bad request", "timed out"}

Contexts == {"", "Creating Scope"}

\* str.lower(), piece by piece
Lower(text) ==
    [i \in 1..Len(text) |->
        CASE text[i] = "Max Limit" -> "max limit"
          [] text[i] = "PERMISSION" -> "permission"
          [] text[i] = "Not Found" -> "not found"
          [] text[i] = "Invalid" -> "invalid"
          [] OTHER -> text[i]]

\* keyword in text: the keyword is a piece of the text or lies inside one
Contains(text, keyword) ==
    \E i \in 1..Len(text) :
        \/ text[i] = keyword
        \/ text[i] = "inaccessible" /\ keyword = "access"

\* display_friendly_error with the test for "not found" before the one for
\* "permission"
display_friendly_error_not_found_first(msg, context) ==
    LET error_type ==
          IF Contains(Lower(msg), "max limit") /\ Contains(Lower(msg), "scope")
          THEN "Workspace Limit Reached"
          ELSE IF Contains(Lower(msg), "not found")
          THEN "Resource Not Found"
          ELSE IF Contains(Lower(msg), "permission")
                    \/ Contains(Lower(msg), "access")
          THEN "Permission Error"
          ELSE IF Contains(Lower(msg), "invalid")
                    \/ Contains(Lower(msg), "bad request")
          THEN "Invalid Request"
          ELSE "Error"
    IN  [shown |-> TRUE, error_type |-> error_type, context |-> context,
         suggestions |-> error_type # "Error"]

\* display_friendly_error(error_msg, context): the panel printed
display_friendly_error(msg, context) ==
    LET error_type ==
          IF Contains(Lower(msg), "max limit") /\ Contains(Lower(msg), "scope")
          THEN "Workspace Limit Reached"
          ELSE IF Contains(Lower(msg), "permission")
                    \/ Contains(Lower(msg), "access")
          THEN "Permission Error"
          ELSE IF Contains(Lower(msg), "not found")
          THEN "Resource Not Found"
          ELSE IF Contains(Lower(msg), "invalid")
                    \/ Contains(Lower(msg), "bad request")
          THEN "Invalid Request"
          ELSE "Error"
    IN  [shown |-> TRUE, error_type |-> error_type, context |-> context,
         suggestions |-> error_type # "Error"]

NoPanel == [shown |-> FALSE, error_type |-> "", context |-> "",
            suggestions |-> FALSE]

ErrorIdle ==
    /\ error_msg = <<>>
    /\ errorPanel = NoPanel

\* a failing command writes one more piece of its failure text
FailureText(w) ==
    /\ ~errorPanel.shown
    /\ Len(error_msg) < MaxWords
    /\ error_msg' = Append(error_msg, w)
    /\ UNCHANGED errorPanel

\* the caller hands the text to display_friendly_error
DisplayFriendlyError(context) ==
    /\ ~errorPanel.shown
    /\ errorPanel' = display_friendly_error(error_msg, context)
    /\ UNCHANGED error_msg

----------------------------------------------------------------------------
(***************************************************************************)
(* src/app.py: get_openai_api_key                                          *)
(*                                                                         *)
(* The secret store either cannot be imported (not a Databricks runtime),  *)
(* raises (no such secret), or returns a string, which may be empty; the   *)
(* environment variable is unset, empty or set.                            *)
(***************************************************************************)
SecretOutcomes == {"ImportError", "Exception", "", "sk-from-secrets"}

EnvValues == {NoneStr, "", "sk-from-env"}

\* "not api_key" is false
Truthy(v) == v \notin {NoneStr, ""}

\* get_openai_api_key with the environment variable tried first
get_openai_api_key_env_first(secret, env) ==
    LET from_store ==
          IF secret \in {"ImportError", "Exception"} THEN NoneStr ELSE secret
        api_key == IF Truthy(env) THEN env ELSE from_store
    IN  IF ~Truthy(api_key)
        THEN [raised |-> "ValueError", result |-> NoneStr]
        ELSE [raised |-> "", result |-> api_key]

\* get_openai_api_key()
get_openai_api_key(secret, env) ==
    LET from_store ==
          IF secret \in {"ImportError", "Exception"} THEN NoneStr ELSE secret
        api_key == IF ~Truthy(from_store) THEN env ELSE from_store
    IN  IF ~Truthy(api_key)
        THEN [raised |-> "ValueError", result |-> NoneStr]
        ELSE [raised |-> "", result |-> api_key]

NoKeyCall == [ran |-> FALSE, secret |-> "ImportError", env |-> NoneStr,
              raised |-> "", result |-> NoneStr]

KeyIdle ==
    /\ secretStore = "ImportError"
    /\ environ = NoneStr
    /\ keyCall = NoKeyCall

\* the app is moved to another runtime, or the secret is set or removed
SetSecretStore(o) ==
    /\ secretStore' = o
    /\ UNCHANGED <<environ, keyCall>>

\* OPENAI_API_KEY is set or unset
SetEnviron(v) ==
    /\ environ' = v
    /\ UNCHANGED <<secretStore, keyCall>>

GetOpenAIApiKey ==
    /\ keyCall' = [ran |-> TRUE, secret |-> secretStore, env |-> environ,
                   raised |-> get_openai_api_key(secretStore, environ).raised,
                   result |-> get_openai_api_key(secretStore, environ).result]
    /\ UNCHANGED <<secretStore, environ>>

----------------------------------------------------------------------------
(***************************************************************************)
(* deploy.py: clean_error_message                                          *)
(*                                                                         *)
(* A raw error text is a sequence of lines.  A line is its text without    *)
(* the surrounding blanks, whether it has surrounding blanks (pad), and    *)
(* the substrings it holds among those clean_error_message looks for (the  *)
(* error words as found in the lower-cased line).  The strip() of the      *)
(* whole text before split('\n') only removes blanks that the strip() of   *)
(* every line removes again.                                               *)
(***************************************************************************)
MaxLines == 3      \* longest error text, in lines

NoiseMarkers ==
    {"urllib3", "NotOpenSSLWarning", "LibreSSL", "warnings.warn", "CLI v0.",
     "found at", "$PATH prefers", "assume you are trying",
     "disable this behavior", "Executing CLI", "-------------------------"}

ErrorMarkers == {"error", "failed", "limit", "permission", "not found", "invalid"}

ErrorLine(text, pad, holds) == [text |-> text, pad |-> pad, holds |-> holds]

SampleLines ==
    { ErrorLine("Error: Scope limit reached", FALSE, {"error", "limit"}),
      ErrorLine("permission denied", TRUE, {"permission"}),
      ErrorLine("App is not running", FALSE, {}),
      ErrorLine("", TRUE, {}),
      ErrorLine("Databricks CLI v0.245.0 found at /usr/local/bin/databricks",
                FALSE, {"CLI v0.", "found at"}),
      ErrorLine("NotOpenSSLWarning: urllib3 v2 only supports OpenSSL 1.1.1+",
                FALSE, {"NotOpenSSLWarning", "urllib3"}),
      ErrorLine("-------------------------", FALSE, {"-------------------------"}),
      ErrorLine("Error: CLI v0.245.0 is not supported", FALSE, {"error", "CLI v0."}) }

UnknownError == <<ErrorLine("Unknown error occurred", FALSE, {"error"})>>

\* line.strip()
StripLine(l) == [l EXCEPT !.pad = FALSE]

\* any(skip in line for skip in [...])
IsNoise(l) == l.holds \cap NoiseMarkers # {}

\* line and (line.startswith('Error:') or 'error' in line.lower() or ...)
LooksLikeError(l) == l.text # "" /\ l.holds \cap ErrorMarkers # {}

\* the first loop: the stripped lines that are no noise and look like errors
RECURSIVE ErrorLinesOf(_)
ErrorLinesOf(lines) ==
    IF lines = <<>> THEN <<>>
    ELSE IF ~IsNoise(lines[1]) /\ LooksLikeError(lines[1])
         THEN <<StripLine(lines[1])>> \o ErrorLinesOf(Tail(lines))
         ELSE ErrorLinesOf(Tail(lines))

\* for line in reversed(lines): if line.strip() and 'CLI v0.' not in line
LastKept(lines) ==
    {i \in 1..Len(lines) : lines[i].text # "" /\ "CLI v0." \notin lines[i].holds}

Max(S) == CHOOSE x \in S : \A y \in S : y <= x

\* clean_error_message(raw_error): the lines of the text it returns, and
\* the return statement that produced it
clean_error_message(raw) ==
    IF raw = <<>> THEN [path |-> "unknown", lines |-> UnknownError]
    ELSE IF ErrorLinesOf(raw) # <<>>
    THEN [path |-> "errors", lines |-> ErrorLinesOf(raw)]
    ELSE IF LastKept(raw) # {}
    THEN [path |-> "last", lines |-> <<StripLine(raw[Max(LastKept(raw))])>>]
    ELSE [path |-> "raw", lines |-> raw]

NotCleaned == [ran |-> FALSE, path |-> "", lines |-> <<>>]

CleanIdle ==
    /\ raw_error = <<>>
    /\ cleanResult = NotCleaned

\* the failing command writes one more line of its error text
ErrorTextLine(l) ==
    /\ ~cleanResult.ran
    /\ Len(raw_error) < MaxLines
    /\ raw_error' = Append(raw_error, l)
    /\ UNCHANGED cleanResult

\* self.clean_error_message(raw_error)
CleanErrorMessage ==
    /\ ~cleanResult.ran
    /\ cleanResult' = [ran |-> TRUE, path |-> clean_error_message(raw_error).path,
                   lines |-> clean_error_message(raw_error).lines]
    /\ UNCHANGED raw_error

----------------------------------------------------------------------------
(***************************************************************************)
(* src/app.py: the session handlers, and components/sidebar.py             *)
(*                                                                         *)
(* st.session_state holds the transcript (messages), chat_id and           *)
(* chat_name, the ChatService (the files of the chat part) and the         *)
(* AgentService (the agent of the agent part).  A chat id is               *)
(* datetime.now() to the second, written as the number of that second;     *)
(* a handler that reads the clock reads a second that is not before the    *)
(* one read last.                                                          *)
(***************************************************************************)
MaxNow == 1        \* last second of the session
MaxTranscript == 2 \* longest transcript handle_message is called with, plus one
MaxCalls == 5      \* handler calls in one session

Stamps == 0..MaxNow

\* initialize_session_state: messages, chat_id and chat_name
NewSession(t) == [messages |-> <<>>, chat_id |-> t, chat_name |-> NoneName]

\* what the user types, and what an llm.invoke or agent_executor.invoke
\* of a handler does
SessionInputs == {"question"}
SessionOutcomes == {"ok", "TimeoutError"}

\* what chat_service.generate_chat_name returns
GeneratedName == "Chat A"

UserRecord(content) == [kind |-> "dict", role |-> "user", content |-> content]
AssistantRecord(content) == [kind |-> "dict", role |-> "assistant", content |-> content]

\* handle_new_chat()
handle_new_chat(s, t) == NewSession(t)

\* a handle_delete_chat that resets the session whatever chat it deleted
handle_delete_chat_always_resets(s, chat_id, t) == NewSession(t)

\* handle_delete_chat(chat_id), after chat_service.delete_chat(chat_id)
handle_delete_chat(s, chat_id, t) ==
    IF chat_id = s.chat_id THEN NewSession(t) ELSE s

\* handle_load_chat(chat_id), given what chat_service.load_chat returned
handle_load_chat(s, chat_id, name, messages) ==
    [messages |-> messages, chat_id |-> chat_id, chat_name |-> name]

\* a handle_message that stores the reply before the question
handle_message_reply_first(s, user_input, nameOutcome, agentOutcome) ==
    LET named == ~(s.chat_name = NoneName /\ Len(s.messages) = 0)
        r == get_response(user_input, agentOutcome)
        s1 == IF named THEN s ELSE [s EXCEPT !.chat_name = GeneratedName]
    IN  IF ~named /\ nameOutcome # "ok"
        THEN [session |-> s, raised |-> nameOutcome, response |-> NoneArg,
              asked |-> FALSE, saved |-> FALSE]
        ELSE IF r.raised # ""
        THEN [session |-> [s1 EXCEPT !.messages = Append(@, UserRecord(user_input))],
              raised |-> r.raised, response |-> NoneArg,
              asked |-> TRUE, saved |-> FALSE]
        ELSE [session |-> [s1 EXCEPT !.messages =
                              @ \o <<AssistantRecord(r.response), UserRecord(user_input)>>],
              raised |-> "", response |-> r.response,
              asked |-> TRUE, saved |-> TRUE]

\* handle_message(user_input), given what llm.invoke does in
\* generate_chat_name and what agent_executor.invoke does in get_response:
\* the session it leaves, the exception that ended it, whether
\* get_response was called and whether handle_save_chat was reached
handle_message(s, user_input, nameOutcome, agentOutcome) ==
    LET named == ~(s.chat_name = NoneName /\ Len(s.messages) = 0)
        r == get_response(user_input, agentOutcome)
        s1 == IF named THEN s ELSE [s EXCEPT !.chat_name = GeneratedName]
        s2 == [s1 EXCEPT !.messages = Append(@, UserRecord(user_input))]
    IN  IF ~named /\ nameOutcome # "ok"
        THEN [session |-> s, raised |-> nameOutcome, response |-> NoneArg,
              asked |-> FALSE, saved |-> FALSE]
        ELSE IF r.raised # ""
        THEN [session |-> s2, raised |-> r.raised, response |-> NoneArg,
              asked |-> TRUE, saved |-> FALSE]
        ELSE [session |-> [s2 EXCEPT !.messages = Append(@, AssistantRecord(r.response))],
              raised |-> "", response |-> r.response,
              asked |-> TRUE, saved |-> TRUE]

SidebarKeys == {"chat_name", "chat_id"}

\* the for loop of render_sidebar: a load button and a delete button per
\* chat, up to the first chat without the keys the loop reads
RECURSIVE ChatButtons(_)
ChatButtons(saved_chats) ==
    IF saved_chats = <<>> THEN <<>>
    ELSE IF SidebarKeys \subseteq DOMAIN saved_chats[1]
    THEN <<[label |-> saved_chats[1].chat_name,
            on_load_chat |-> saved_chats[1].chat_id,
            on_delete_chat |-> saved_chats[1].chat_id]>>
           \o ChatButtons(Tail(saved_chats))
    ELSE <<>>

\* render_sidebar(..., saved_chats, ...): chat["chat_name"] and
\* chat["chat_id"] raise KeyError on a dict without these keys
render_sidebar(saved_chats) ==
    [rendered |-> TRUE, saved_chats |-> saved_chats,
     raised |-> IF \A i \in 1..Len(saved_chats) :
                      SidebarKeys \subseteq DOMAIN saved_chats[i]
                THEN "" ELSE "KeyError",
     buttons |-> ChatButtons(saved_chats)]

NotRendered == [rendered |-> FALSE, saved_chats |-> <<>>, raised |-> "",
                buttons |-> <<>>]

\* the last handler call: its name and arguments (id is the chat id it
\* was given, or that of the session), the second it read,
\* the exception that ended it, and how the chat id it was given relates
\* to the session and the chat directory it started in; n counts the calls
NoHandled == [op |-> "none", id |-> 0, input |-> "", raised |-> "",
              response |-> NoneArg, stamp |-> 0, current |-> FALSE,
              stored |-> FALSE, n |-> 0]

Handling(op) == [NoHandled EXCEPT !.op = op, !.id = session.chat_id,
                                  !.stamp = now,
                                  !.n = handled.n + 1]

\* st.rerun(): the script run ends here and its page is dropped
Rerun == sidebar' = NotRendered

SessionIdle ==
    /\ session = NewSession(0)
    /\ now = 0
    /\ handled = NoHandled
    /\ memoryChat = <<>>
    /\ sidebar = NotRendered

\* handle_new_chat()
HandleNewChat(t) ==
    /\ handled.n < MaxCalls
    /\ t >= now
    /\ session' = handle_new_chat(session, t)
    /\ now' = t
    /\ handled' = [Handling("new_chat") EXCEPT !.stamp = t]
    /\ Rerun
    /\ UNCHANGED <<chatVars, agentVars, memoryChat>>

\* handle_save_chat()
HandleSaveChat ==
    /\ handled.n < MaxCalls
    /\ SaveChat(session.chat_id, session.chat_name, session.messages)
    /\ handled' = Handling("save")
    /\ UNCHANGED <<session, now, agentVars, memoryChat, sidebar>>

\* handle_load_chat(chat_id)
HandleLoadChat(chat_id) ==
    /\ handled.n < MaxCalls
    /\ LoadChat(chat_id)
    /\ session' = handle_load_chat(session, chat_id, chatCall'.name, chatCall'.messages)
    /\ handled' = [Handling("load") EXCEPT !.id = chat_id,
                                           !.current = (chat_id = session.chat_id),
                                           !.stored = (chat_id \in DOMAIN files)]
    /\ Rerun
    /\ UNCHANGED <<now, agentVars, memoryChat>>

\* handle_delete_chat(chat_id)
HandleDeleteChat(chat_id, t) ==
    /\ handled.n < MaxCalls
    /\ t >= now
    /\ chat_id # session.chat_id => t = now
    /\ DeleteChat(chat_id)
    /\ session' = handle_delete_chat(session, chat_id, t)
    /\ now' = t
    /\ handled' = [Handling("delete") EXCEPT !.id = chat_id, !.stamp = t,
                                             !.current = (chat_id = session.chat_id),
                                             !.stored = (chat_id \in DOMAIN files)]
    /\ Rerun
    /\ UNCHANGED <<agentVars, memoryChat>>

\* handle_message(user_input); the executor stores the exchange in the
\* memory when its invocation returns
HandleMessage(user_input, nameOutcome, agentOutcome) ==
    LET r == handle_message(session, user_input, nameOutcome, agentOutcome)
    IN  /\ handled.n < MaxCalls
        /\ Len(session.messages) < MaxTranscript
        /\ session' = r.session
        /\ IF r.asked THEN GetResponse(user_input, agentOutcome)
                      ELSE UNCHANGED agentVars
        /\ IF r.saved
           THEN SaveChat(r.session.chat_id, r.session.chat_name, r.session.messages)
           ELSE UNCHANGED chatVars
        /\ memoryChat' = IF r.asked /\ r.raised = ""
                         THEN Append(memoryChat, session.chat_id)
                         ELSE memoryChat
        /\ handled' = [Handling("message") EXCEPT !.input = user_input,
                                                  !.raised = r.raised,
                                                  !.response = r.response]
        /\ UNCHANGED <<now, sidebar>>

\* main(): render_sidebar(saved_chats=chat_service.get_saved_chats(), ...)
Main ==
    /\ GetSavedChats
    /\ sidebar' = render_sidebar(chatCall'.listing)
    /\ UNCHANGED <<session, now, handled, memoryChat, agentVars>>

----------------------------------------------------------------------------
(***************************************************************************)
(* SpecJson: the command output is any text of at most MaxLen characters;  *)
(* the interpreter is then run on it.                                      *)
(***************************************************************************)
InitJson ==
    /\ JsonIdle /\ ScopesIdle /\ ChatIdle /\ AgentIdle /\ DeployIdle
    /\ ErrorIdle /\ KeyIdle /\ CleanIdle /\ SessionIdle

NextJson ==
    \/ (\E c \in JsonChars : EmitChar(c)) /\ UNCHANGED <<scopeVars, chatVars, agentVars, deployVars, errorVars, keyVars, cleanVars, sessionVars>>
    \/ ExtractJson /\ UNCHANGED <<scopeVars, chatVars, agentVars, deployVars, errorVars, keyVars, cleanVars, sessionVars>>

SpecJson == InitJson /\ [][NextJson]_vars

(***************************************************************************)
(* SpecScopes: any set of scopes exists in the workspace; the function is  *)
(* called once with any max_scopes in 1..MaxCap.                           *)
(***************************************************************************)
InitScopes ==
    /\ JsonIdle /\ ChatIdle /\ AgentIdle /\ DeployIdle
    /\ ErrorIdle /\ KeyIdle /\ CleanIdle /\ SessionIdle
    /\ workspaceScopes \in SUBSET ScopeUniverse
    /\ sc_pc = "idle"
    /\ max_scopes = 0
    /\ shared_scopes = <<>>
    /\ regular_scopes = <<>>
    /\ sc_idx = 0
    /\ manageable_scopes = <<>>
    /\ probes = <<>>
    /\ probeManage = {}
    /\ scopesResult = <<>>

NextScopes ==
    \/ (\E m \in 1..MaxCap : ScopesCall(m)) /\ UNCHANGED <<jsonVars, chatVars, agentVars, deployVars, errorVars, keyVars, cleanVars, sessionVars>>
    \/ ListScopesFails /\ UNCHANGED <<jsonVars, chatVars, agentVars, deployVars, errorVars, keyVars, cleanVars, sessionVars>>
    \/ ListScopesSucceeds /\ UNCHANGED <<jsonVars, chatVars, agentVars, deployVars, errorVars, keyVars, cleanVars, sessionVars>>
    \/ (\E o \in ProbeOutcomes : ProbeScope(o)) /\ UNCHANGED <<jsonVars, chatVars, agentVars, deployVars, errorVars, keyVars, cleanVars, sessionVars>>

SpecScopes == InitScopes /\ [][NextScopes]_vars

(***************************************************************************)
(* SpecChat: any sequence of ChatService calls, with at most MaxSaves      *)
(* saves of message lists of at most MaxMsgs messages.                     *)
(***************************************************************************)
InitChat ==
    /\ JsonIdle /\ ScopesIdle /\ ChatIdle /\ AgentIdle /\ DeployIdle
    /\ ErrorIdle /\ KeyIdle /\ CleanIdle /\ SessionIdle

NextChat ==
    \/ (\E id \in ChatIds, name \in ChatNames, ms \in MessageLists :
            SaveChat(id, name, ms)) /\ UNCHANGED <<jsonVars, scopeVars, agentVars, deployVars, errorVars, keyVars, cleanVars, sessionVars>>
    \/ (\E id \in ChatIds : LoadChat(id)) /\ UNCHANGED <<jsonVars, scopeVars, agentVars, deployVars, errorVars, keyVars, cleanVars, sessionVars>>
    \/ GetSavedChats /\ UNCHANGED <<jsonVars, scopeVars, agentVars, deployVars, errorVars, keyVars, cleanVars, sessionVars>>
    \/ (\E id \in ChatIds : DeleteChat(id)) /\ UNCHANGED <<jsonVars, scopeVars, agentVars, deployVars, errorVars, keyVars, cleanVars, sessionVars>>

SpecChat == InitChat /\ [][NextChat]_vars

(***************************************************************************)
(* SpecChatFiles: the same calls, with save_chat handed one of three       *)
(* message lists: what is in a chat matters little to which files there    *)
(* are.                                                                    *)
(***************************************************************************)
SampleLists ==
    { <<>>,
      <<[kind |-> "obj", role |-> "human", content |-> "hello"]>>,
      <<[kind |-> "dict", role |-> "user", content |-> "hello"],
        [kind |-> "obj", role |-> "human", content |-> "hi there"]>> }

NextChatFiles ==
    \/ (\E id \in ChatIds, name \in ChatNames, ms \in SampleLists :
            SaveChat(id, name, ms)) /\ UNCHANGED <<jsonVars, scopeVars, agentVars, deployVars, errorVars, keyVars, cleanVars, sessionVars>>
    \/ (\E id \in ChatIds : LoadChat(id)) /\ UNCHANGED <<jsonVars, scopeVars, agentVars, deployVars, errorVars, keyVars, cleanVars, sessionVars>>
    \/ GetSavedChats /\ UNCHANGED <<jsonVars, scopeVars, agentVars, deployVars, errorVars, keyVars, cleanVars, sessionVars>>
    \/ (\E id \in ChatIds : DeleteChat(id)) /\ UNCHANGED <<jsonVars, scopeVars, agentVars, deployVars, errorVars, keyVars, cleanVars, sessionVars>>

SpecChatFiles == InitChat /\ [][NextChatFiles]_vars

(***************************************************************************)
(* SpecAgent: an AgentService is constructed and then reconfigured and     *)
(* asked, with any arguments.                                              *)
(***************************************************************************)
InitAgent ==
    /\ JsonIdle /\ ScopesIdle /\ ChatIdle /\ AgentIdle /\ DeployIdle
    /\ ErrorIdle /\ KeyIdle /\ CleanIdle /\ SessionIdle

NextAgent ==
    \/ (\E mn \in ModelNames, tp \in TempArgs, sp \in Prompts :
            AgentInit(mn, tp, sp)) /\ UNCHANGED <<jsonVars, scopeVars, chatVars, deployVars, errorVars, keyVars, cleanVars, sessionVars>>
    \/ (\E mn \in ModelNames \cup {NoneArg}, tp \in TempArgs, sp \in Prompts \cup {NoneArg} :
            UpdateConfiguration(mn, tp, sp)) /\ UNCHANGED <<jsonVars, scopeVars, chatVars, deployVars, errorVars, keyVars, cleanVars, sessionVars>>
    \/ (\E ui \in UserInputs, outcome \in InvokeOutcomes :
            GetResponse(ui, outcome)) /\ UNCHANGED <<jsonVars, scopeVars, chatVars, deployVars, errorVars, keyVars, cleanVars, sessionVars>>

SpecAgent == InitAgent /\ [][NextAgent]_vars

(***************************************************************************)
(* SpecDeploy: at most MaxRuns processes of the deployment tool, one after *)
(* the other in the same directory, each with any command, any outcome of  *)
(* every external command and any answer to every prompt.                  *)
(***************************************************************************)
DeployFrame ==
    UNCHANGED <<jsonVars, scopeVars, chatVars, agentVars, errorVars, keyVars, cleanVars, sessionVars>>

InitDeploy ==
    /\ JsonIdle /\ ScopesIdle /\ ChatIdle /\ AgentIdle
    /\ ErrorIdle /\ KeyIdle /\ CleanIdle /\ SessionIdle
    /\ DeployIdle

NextDeploy ==
    \/ (\E command \in Entries, dry \in BOOLEAN : MainStart(command, dry)) /\ DeployFrame
    \/ (\E ok \in BOOLEAN : PreVersion(ok)) /\ DeployFrame
    \/ (\E o \in {"ok", "fail"} : PreUser(o)) /\ DeployFrame
    \/ (\E o \in {"url", "none"} : PreProfiles(o)) /\ DeployFrame
    \/ (\E o \in {"url", "none"} : PreConfig(o)) /\ DeployFrame
    \/ (\E o \in {"url", "none"} : PreLegacy(o)) /\ DeployFrame
    \/ (\E o \in {"ok", "fail"} : SciUser(o)) /\ DeployFrame
    \/ (\E o \in {"url", "none"} : SciProfiles(o)) /\ DeployFrame
    \/ (\E o \in {"url", "none"} : SciConfig(o)) /\ DeployFrame
    \/ (\E o \in {"url", "none"} : SciWsStatus(o)) /\ DeployFrame
    \/ (\E ok \in BOOLEAN : SciVersion(ok)) /\ DeployFrame
    \/ (\E yes \in BOOLEAN : SciConfirm(yes)) /\ DeployFrame
    \/ (\E name \in ScopeChoices : CsName(name)) /\ DeployFrame
    \/ (\E o \in {"present", "absent"} : CsList(o)) /\ DeployFrame
    \/ (\E o \in {"manage", "other"} : CsAcl(o)) /\ DeployFrame
    \/ (\E o \in {"ok", "limit", "fail"} : CsCreate(o)) /\ DeployFrame
    \/ (\E c \in {"continue", "exit"} : OesChoice(c)) /\ DeployFrame
    \/ (\E found \in BOOLEAN : OesDiscover(found)) /\ DeployFrame
    \/ (\E c \in {"q", "index", "invalid"} : OesSelect(c)) /\ DeployFrame
    \/ (\E name \in SecretChoices : CfName(name)) /\ DeployFrame
    \/ (\E o \in {"present", "absent"} : CfList(o)) /\ DeployFrame
    \/ (\E yes \in BOOLEAN : CfUseExisting(yes)) /\ DeployFrame
    \/ (\E ok \in BOOLEAN : CfPut(ok)) /\ DeployFrame
    \/ LoadConfig /\ DeployFrame
    \/ (\E name \in AppChoices : DeployName(name)) /\ DeployFrame
    \/ (\E o \in {"absent", "exists", "badjson"} : DeployList(o)) /\ DeployFrame
    \/ DeployWriteYaml /\ DeployFrame
    \/ (\E ok \in BOOLEAN : DeployCreate(ok)) /\ DeployFrame
    \/ (\E ok \in BOOLEAN : DeploySync(ok)) /\ DeployFrame
    \/ (\E ok \in BOOLEAN : DeployDeploy(ok)) /\ DeployFrame
    \/ (\E o \in {"running", "other"} : StartProbe(o)) /\ DeployFrame
    \/ (\E ok \in BOOLEAN : StartCmd(ok)) /\ DeployFrame
    \/ (\E o \in {"ready", "notready"} : StartWait(o)) /\ DeployFrame
    \/ (\E yes \in BOOLEAN : StopConfirm(yes)) /\ DeployFrame
    \/ (\E ok \in BOOLEAN : StopCmd(ok)) /\ DeployFrame
    \/ (\E yes \in BOOLEAN : DeleteConfirm(yes)) /\ DeployFrame
    \/ (\E ok \in BOOLEAN : DeleteCmd(ok)) /\ DeployFrame
    \/ (\E o \in {"notfound", "other"} : DeleteWait(o)) /\ DeployFrame
    \/ (\E yes \in BOOLEAN : RedeployConfirm(yes)) /\ DeployFrame
    \/ (\E ok \in BOOLEAN : SdSync(ok)) /\ DeployFrame
    \/ (\E ok \in BOOLEAN : SdDeploy(ok)) /\ DeployFrame
    \/ (\E ok \in BOOLEAN : SdGet(ok)) /\ DeployFrame
    \/ (\E ok \in BOOLEAN : StatusVersion(ok)) /\ DeployFrame
    \/ (\E o \in {"found", "none"}, name \in AppChoices : FindApp(o, name)) /\ DeployFrame
    \/ (\E o \in {"ok", "fail"} : StatusGet(o)) /\ DeployFrame
    \/ (\E ok \in BOOLEAN : StatusHistory(ok)) /\ DeployFrame
    \/ (\E o \in {"shared", "none"} : RunList(o)) /\ DeployFrame
    \/ (\E yes \in BOOLEAN : RunUseShared(yes)) /\ DeployFrame
    \/ (\E name \in AppChoices : ConfigureApp(name)) /\ DeployFrame
    \/ (\E yes \in BOOLEAN : RunConfirm(yes)) /\ DeployFrame
    \/ (\E o \in {"ok", "exists", "fail"} : DaCreate(o)) /\ DeployFrame
    \/ (\E ok \in BOOLEAN : DaSync(ok)) /\ DeployFrame
    \/ (\E ok \in BOOLEAN : DaDeploy(ok)) /\ DeployFrame
    \/ (\E ok \in BOOLEAN : DaGet(ok)) /\ DeployFrame

SpecDeploy == InitDeploy /\ [][NextDeploy]_vars

\* every external command returns and the process goes on: a step that is
\* possible is eventually taken
SpecDeployFair == SpecDeploy /\ WF_vars(NextDeploy)

(***************************************************************************)
(* SpecFreshDeploy: processes of "deploy" in which every external command  *)
(* succeeds, one of the discovery methods yields the URL, the app name     *)
(* does not exist yet and, where the scope exists, the user may manage     *)
(* it.  The user's answers, and whether scope and secret exist, are free.  *)
(* start_app gets as far as load_config_from_yaml; its later steps (the    *)
(* probe, "apps start", the wait loop) are never reached in these          *)
(* processes and are therefore no steps of this specification.             *)
(***************************************************************************)
NextFreshDeploy ==
    \/ (\E dry \in BOOLEAN : MainStart("deploy", dry)) /\ DeployFrame
    \/ PreVersion(TRUE) /\ DeployFrame
    \/ PreUser("ok") /\ DeployFrame
    \/ (\E o \in {"url", "none"} : PreProfiles(o)) /\ DeployFrame
    \/ (\E o \in {"url", "none"} : PreConfig(o)) /\ DeployFrame
    \/ PreLegacy("url") /\ DeployFrame
    \/ (\E name \in AppChoices : DeployName(name)) /\ DeployFrame
    \/ DeployList("absent") /\ DeployFrame
    \/ (\E name \in ScopeChoices : CsName(name)) /\ DeployFrame
    \/ (\E o \in {"present", "absent"} : CsList(o)) /\ DeployFrame
    \/ CsAcl("manage") /\ DeployFrame
    \/ CsCreate("ok") /\ DeployFrame
    \/ (\E name \in SecretChoices : CfName(name)) /\ DeployFrame
    \/ (\E o \in {"present", "absent"} : CfList(o)) /\ DeployFrame
    \/ (\E yes \in BOOLEAN : CfUseExisting(yes)) /\ DeployFrame
    \/ CfPut(TRUE) /\ DeployFrame
    \/ DeployWriteYaml /\ DeployFrame
    \/ DeployCreate(TRUE) /\ DeployFrame
    \/ DeploySync(TRUE) /\ DeployFrame
    \/ DeployDeploy(TRUE) /\ DeployFrame
    \/ LoadConfig /\ DeployFrame

SpecFreshDeploy == InitDeploy /\ [][NextFreshDeploy]_vars

(***************************************************************************)
(* SpecErrors: any failure text of at most MaxWords pieces is displayed,   *)
(* with or without a context.                                              *)
(***************************************************************************)
OtherThanErrors ==
    UNCHANGED <<jsonVars, scopeVars, chatVars, agentVars, deployVars, keyVars, cleanVars, sessionVars>>

InitErrors ==
    /\ JsonIdle /\ ScopesIdle /\ ChatIdle /\ AgentIdle /\ DeployIdle
    /\ ErrorIdle /\ KeyIdle /\ CleanIdle /\ SessionIdle

NextErrors ==
    \/ (\E w \in ErrorWords : FailureText(w)) /\ OtherThanErrors
    \/ (\E context \in Contexts : DisplayFriendlyError(context)) /\ OtherThanErrors

SpecErrors == InitErrors /\ [][NextErrors]_vars

(***************************************************************************)
(* SpecApiKey: get_openai_api_key is called any number of times while the  *)
(* secret store and the environment change.                                *)
(***************************************************************************)
OtherThanKey ==
    UNCHANGED <<jsonVars, scopeVars, chatVars, agentVars, deployVars, errorVars, cleanVars, sessionVars>>

InitApiKey ==
    /\ JsonIdle /\ ScopesIdle /\ ChatIdle /\ AgentIdle /\ DeployIdle
    /\ ErrorIdle /\ KeyIdle /\ CleanIdle /\ SessionIdle

NextApiKey ==
    \/ (\E o \in SecretOutcomes : SetSecretStore(o)) /\ OtherThanKey
    \/ (\E v \in EnvValues : SetEnviron(v)) /\ OtherThanKey
    \/ GetOpenAIApiKey /\ OtherThanKey

SpecApiKey == InitApiKey /\ [][NextApiKey]_vars


----------------------------------------------------------------------------
(***************************************************************************)
(* SpecClean: the error text is any text of at most MaxLines lines;        *)
(* clean_error_message is then run on it.                                  *)
(***************************************************************************)
OtherThanClean ==
    UNCHANGED <<jsonVars, scopeVars, chatVars, agentVars, deployVars, errorVars, keyVars, sessionVars>>

InitClean ==
    /\ JsonIdle /\ ScopesIdle /\ ChatIdle /\ AgentIdle /\ DeployIdle
    /\ ErrorIdle /\ KeyIdle /\ CleanIdle /\ SessionIdle

NextClean ==
    \/ (\E l \in SampleLines : ErrorTextLine(l)) /\ OtherThanClean
    \/ CleanErrorMessage /\ OtherThanClean

SpecClean == InitClean /\ [][NextClean]_vars

----------------------------------------------------------------------------
(***************************************************************************)
(* SpecSession: one browser session of the app.  initialize_session_state  *)
(* has built the AgentService with the default settings and an empty chat  *)
(* directory; then the handlers run in any order, with any chat id, and    *)
(* main() renders the sidebar between them.                                *)
(***************************************************************************)
SessionFrame ==
    UNCHANGED <<jsonVars, scopeVars, deployVars, errorVars, keyVars, cleanVars>>

InitSession ==
    /\ JsonIdle /\ ScopesIdle /\ ChatIdle /\ DeployIdle
    /\ ErrorIdle /\ KeyIdle /\ CleanIdle /\ SessionIdle
    /\ agent = agent_init("gpt-3.5-turbo", Num(7), "prompt 1").agent
    /\ agentCall = NoAgentCall

NextSession ==
    \/ (\E t \in Stamps : HandleNewChat(t)) /\ SessionFrame
    \/ HandleSaveChat /\ SessionFrame
    \/ (\E id \in Stamps : HandleLoadChat(id)) /\ SessionFrame
    \/ (\E id \in Stamps, t \in Stamps : HandleDeleteChat(id, t)) /\ SessionFrame
    \/ (\E ui \in SessionInputs, n \in SessionOutcomes, a \in SessionOutcomes :
            HandleMessage(ui, n, a)) /\ SessionFrame
    \/ Main /\ SessionFrame

SpecSession == InitSession /\ [][NextSession]_vars

----------------------------------------------------------------------------
(***************************************************************************)
(* Claims about extract_json_from_output (checked under SpecJson)          *)
(***************************************************************************)
JsonRan == jsonResult # NotRun

AllNoise(s) == \A i \in 1..Len(s) : s[i] = "x"

\* a well-formed JSON object or array
IsObjectOrArray(s) == s # <<>> /\ s[1] \in Openers /\ ParseValue(s, 1) = Len(s) + 1

\* C2 (as claimed): whenever the text is one well-formed JSON object or
\* array with nothing but noise characters before and after it, the
\* extractor returns exactly that object or array.
C2_ExtractsTheOneJsonValue ==
    JsonRan =>
      \A i \in 1..Len(output) : \A j \in i..Len(output) :
         ( /\ AllNoise(Slice(output, 1, i - 1))
           /\ AllNoise(Slice(output, j + 1, Len(output)))
           /\ IsObjectOrArray(Slice(output, i, j)) )
         => jsonResult = Some(Slice(output, i, j))

\* The bracket characters of a text that lie outside its string literals.
RECURSIVE BracketsOutsideStrings(_, _, _, _)
BracketsOutsideStrings(s, i, inStr, esc) ==
    IF i > Len(s) THEN <<>>
    ELSE IF inStr
         THEN IF esc THEN BracketsOutsideStrings(s, i + 1, TRUE, FALSE)
              ELSE IF s[i] = "\\" THEN BracketsOutsideStrings(s, i + 1, TRUE, TRUE)
              ELSE IF s[i] = "\"" THEN BracketsOutsideStrings(s, i + 1, FALSE, FALSE)
              ELSE BracketsOutsideStrings(s, i + 1, TRUE, FALSE)
    ELSE IF s[i] = "\"" THEN BracketsOutsideStrings(s, i + 1, TRUE, FALSE)
    ELSE IF s[i] \in Openers \cup Closers
         THEN <<s[i]>> \o BracketsOutsideStrings(s, i + 1, FALSE, FALSE)
    ELSE BracketsOutsideStrings(s, i + 1, FALSE, FALSE)

RECURSIVE WellNested(_, _, _)
WellNested(b, i, stack) ==
    IF i > Len(b) THEN stack = <<>>
    ELSE IF b[i] \in Openers THEN WellNested(b, i + 1, Append(stack, b[i]))
    ELSE /\ stack # <<>>
         /\ Matches(stack[Len(stack)], b[i])
         /\ WellNested(b, i + 1, SubSeq(stack, 1, Len(stack) - 1))

\* an opener without its closer, a closer without its opener, or a surplus
\* closer after a complete value
Unbalanced(s) == ~WellNested(BracketsOutsideStrings(s, 1, FALSE, FALSE), 1, <<>>)

Positions(s, c) == {i \in 1..Len(s) : s[i] = c}
Least(S) == CHOOSE i \in S : \A j \in S : i <= j

\* the bracket the scan starts at: the first "{", or the first "[" of a
\* text without "{"; 0 when the text has no opening bracket
FirstOpener(s) ==
    IF Positions(s, "{") # {} THEN Least(Positions(s, "{"))
    ELSE IF Positions(s, "[") # {} THEN Least(Positions(s, "["))
    ELSE 0

CountIn(b, k, S) == Cardinality({n \in 1..k : b[n] \in S})

\* from the first opener on, at every point more brackets have been opened
\* than closed (outside strings): that opener is never closed
NeverClosed(s) ==
    LET b == BracketsOutsideStrings(Slice(s, FirstOpener(s), Len(s)), 1, FALSE, FALSE)
    IN  \A k \in 1..Len(b) : CountIn(b, k, Openers) > CountIn(b, k, Closers)

ListedShared  == {shared_scopes[i] : i \in 1..Len(shared_scopes)}
ListedRegular == {regular_scopes[i] : i \in 1..Len(regular_scopes)}

TimesProbed(s) == Cardinality({k \in 1..Len(probes) : probes[k] = s})

\* C4 (as claimed): the list returned has at most max_scopes elements.
C4_AtMostMaxScopes ==
    sc_pc = "done" => Len(scopesResult) <= max_scopes

\* C5: every listed scope with the preferred prefix is probed exactly once
\* by the time the function returns (never more than once before), and at
\* the first probe of a scope without the prefix all of them have been
\* probed already.
C5_SharedProbedOnceAndFirst ==
    /\ \A s \in ScopeUniverse : TimesProbed(s) <= 1
    /\ sc_pc = "done" => \A s \in ListedShared : TimesProbed(s) = 1
    /\ \A k \in 1..Len(probes) :
          ~HasSharedPrefix(probes[k]) =>
              /\ \A s \in ListedShared : \E j \in 1..(k - 1) : probes[j] = s
              /\ \A j \in k..Len(probes) : ~HasSharedPrefix(probes[j])

\* C5 witness: the function returned after probing at least two shared
\* scopes and at least one regular scope.
C5_Witness ==
    /\ sc_pc = "done"
    /\ Cardinality(ListedShared) >= 2
    /\ \E k \in 1..Len(probes) : ~HasSharedPrefix(probes[k])

\* C6: in the returned list no scope without the preferred prefix comes
\* before one with it, and every returned scope is one whose probe
\* succeeded and reported MANAGE.
C6_SharedFirstAndManageable ==
    sc_pc = "done" =>
      /\ \A i \in 1..Len(scopesResult) : \A j \in 1..Len(scopesResult) :
            (i < j /\ HasSharedPrefix(scopesResult[j])) => HasSharedPrefix(scopesResult[i])
      /\ \A i \in 1..Len(scopesResult) : scopesResult[i] \in probeManage

\* C6 witness: a returned list that mixes shared and regular scopes, the
\* regular one being alphabetically first.
C6_Witness ==
    /\ sc_pc = "done"
    /\ Len(scopesResult) >= 2
    /\ HasSharedPrefix(scopesResult[1])
    /\ \E i \in 1..Len(scopesResult) : scopesResult[i] = "alpha"

(***************************************************************************)
(* Claims about ChatService (checked under SpecChat)                       *)
(***************************************************************************)
\* C1 (as claimed): load_chat(id) after save_chat(id, name, messages)
\* returns the same name and a message list of the same length with the
\* same role and content at every position.
C1_SaveLoadRoundTrip ==
    (chatCall.op = "load" /\ chatCall.id \in DOMAIN lastSaved) =>
      LET saved == lastSaved[chatCall.id]
      IN  /\ chatCall.name = saved.name
          /\ Len(chatCall.messages) = Len(saved.messages)
          /\ \A i \in 1..Len(saved.messages) :
                /\ chatCall.messages[i].role = saved.messages[i].role
                /\ chatCall.messages[i].content = saved.messages[i].content

(***************************************************************************)
(* Claims about AgentService (checked under SpecAgent)                     *)
(***************************************************************************)
\* a temperature that is no number (None included, for the constructor;
\* None passed to update_configuration means "not passed") or lies
\* outside [0, 1]
InvalidTemperature(op, temperature) ==
    \/ temperature.kind = "str"
    \/ temperature.kind = "none" /\ op = "init"
    \/ temperature.kind = "num" /\ (temperature.val < 0 \/ temperature.val > TempScale)

\* C10: a constructor or update_configuration call with an invalid
\* temperature raises ValueError and leaves every field and every built
\* object (LLM, memory, executor) as it was: nothing is built, replaced or
\* modified.
C10_InvalidTemperatureRejectedFirst ==
    [][ ( /\ agentCall'.op \in {"init", "update"}
          /\ InvalidTemperature(agentCall'.op, agentCall'.temperature) )
        => (agentCall'.raised = "ValueError" /\ agent' = agent) ]_vars

\* C10 witness: update_configuration was called on a constructed service
\* with a temperature above 1 together with another model name and another
\* prompt, and it raised.
C10_Witness ==
    /\ agent.constructed
    /\ agentCall.op = "update"
    /\ agentCall.temperature = Num(TempScale + 1)
    /\ agentCall.model_name \notin {NoneArg, agent.model_name}
    /\ agentCall.system_prompt \notin {NoneArg, agent.system_prompt}
    /\ Len(agent.history) > 0
    /\ agentCall.raised = "ValueError"

----------------------------------------------------------------------------
(***************************************************************************)
(* Claims about the deployment tool (checked under SpecDeploy)             *)
(***************************************************************************)

\* C7: in a process started with --dry-run, whatever the subcommand and
\* the answers, no mutating external command has been issued and app.yaml
\* has been neither written nor removed.
C7_DryRunNoChanges ==
    (tool.dry_run /\ tool.cmd \in MainCommands)
        => (Mutations(tool) = <<>> /\ ~tool.yamlTouched)

\* C8: when the process of a subcommand has ended, its exit code is 0 if
\* the command's method returned True and 1 if it returned False.
C8_ExitCodeReflectsResult ==
    (tool.pc = "exit" /\ tool.cmd \in MainCommands)
        => /\ tool.ret = "True" => tool.exitCode = 0
           /\ tool.ret = "False" => tool.exitCode = 1

\* C9: when load_config_from_yaml has read the app.yaml that deploy or
\* configure_app wrote for scope S, secret K and app name A, it succeeded
\* and set scope_name = S, secret_name = K and app_name = A.
C9_ConfigRoundTrip ==
    (tool.lastLoad.done /\ yamlOrigin.writer # "none")
        => /\ tool.lastLoad.ok
           /\ tool.lastLoad.scope_name = yamlOrigin.scope_name
           /\ tool.lastLoad.secret_name = yamlOrigin.secret_name
           /\ tool.lastLoad.app_name = yamlOrigin.app_name

----------------------------------------------------------------------------
(***************************************************************************)
(* Further claims about AgentService (checked under SpecAgent)             *)
(***************************************************************************)

\* C11: every accepted update_configuration call, whatever fields it
\* passes, replaces the LLM, the conversation memory and the agent executor
\* by new objects built from the model name, temperature and system prompt
\* the service has after the call, and leaves the conversation memory empty.
C11_RebuildOnUpdate ==
    [][ (agentCall'.op = "update" /\ agentCall'.raised = "")
        => /\ agent'.builds = agent.builds + 1
           /\ agent'.memory = [build |-> agent'.builds]
           /\ agent'.memory # agent.memory
           /\ agent'.agent_executor = [build |-> agent'.builds,
                                       system_prompt |-> agent'.system_prompt]
           /\ agent'.agent_executor # agent.agent_executor
           /\ agent'.llm = [build |-> agent'.builds,
                            model_name |-> agent'.model_name,
                            temperature |-> agent'.temperature]
           /\ agent'.history = <<>> ]_vars

\* C11 witness: update_configuration was called with no field at all on a
\* service that had been rebuilt before, and was accepted.
C11_Witness ==
    /\ agentCall.op = "update"
    /\ agentCall.raised = ""
    /\ agentCall.model_name = NoneArg
    /\ agentCall.temperature = NoneTemp
    /\ agentCall.system_prompt = NoneArg
    /\ agent.builds = MaxBuilds
    /\ agent.memory = [build |-> MaxBuilds]

\* C15: a get_response call with a non-empty input invokes the executor
\* exactly once; when that invocation raises, the call raises the same
\* exception and returns no response.
C15_InvokedOnceNoRetry ==
    (agentCall.op = "get_response" /\ agentCall.input # "")
        => /\ agentCall.invoked = 1
           /\ agentCall.outcome \in InvokeErrors
                => /\ agentCall.raised = agentCall.outcome
                   /\ agentCall.response = NoneArg
           /\ agentCall.outcome = "ok"
                => /\ agentCall.raised = ""
                   /\ agentCall.response = "answer"

\* C15 witness: get_response("question") whose invocation raised
\* TimeoutError, on a service whose memory already holds an exchange.
C15_Witness ==
    /\ agentCall.op = "get_response"
    /\ agentCall.input = "question"
    /\ agentCall.outcome = "TimeoutError"
    /\ agentCall.raised = "TimeoutError"
    /\ Len(agent.history) = 1

\* C19: an accepted update_configuration call sets each of model name,
\* temperature and system prompt that it was passed (non-None) to the
\* argument and leaves each one it was not passed as it was; a rejected
\* call leaves all three as they were.
C19_PartialUpdate ==
    [][ agentCall'.op = "update"
        => /\ agent'.model_name =
                 IF agentCall'.raised = "" /\ agentCall'.model_name # NoneArg
                 THEN agentCall'.model_name ELSE agent.model_name
           /\ agent'.temperature =
                 IF agentCall'.raised = "" /\ agentCall'.temperature # NoneTemp
                 THEN agentCall'.temperature ELSE agent.temperature
           /\ agent'.system_prompt =
                 IF agentCall'.raised = "" /\ agentCall'.system_prompt # NoneArg
                 THEN agentCall'.system_prompt ELSE agent.system_prompt ]_vars

\* C19 witness: update_configuration(temperature=0.0) alone was accepted on
\* a service with model gpt-4, prompt 2 and, before, another temperature.
C19_Witness ==
    /\ agentCall.op = "update"
    /\ agentCall.raised = ""
    /\ agentCall.model_name = NoneArg
    /\ agentCall.system_prompt = NoneArg
    /\ agentCall.temperature = Num(0)
    /\ agent.temperature = Num(0)
    /\ agent.model_name = "gpt-4"
    /\ agent.system_prompt = "prompt 2"

----------------------------------------------------------------------------
(***************************************************************************)
(* Further claims about the deployment tool (checked under SpecDeploy)     *)
(***************************************************************************)

\* C12: in a process of deploy, redeploy, start, stop or delete, whenever a
\* state-changing command has been issued, the user has before that answered
\* yes to a confirmation prompt of the same process.  (The set of answered
\* prompts only grows within a process, so the property is checked at the
\* state in which the first such command has just been issued.)
C12_ConfirmedBeforeMutation ==
    (tool.cmd \in {"deploy", "redeploy", "start", "stop", "delete"}
       /\ Mutations(tool) # <<>>)
        => tool.confirmed # {}

\* C14: every external command the tool has issued (run_databricks_command
\* or a direct subprocess call) was started with a finite timeout.
C14_EveryCallHasTimeout ==
    \A i \in 1..Len(tool.issued) : tool.issued[i].timeout # NoTimeout

\* the probes ("apps get") in the log after the last `command`
LastIssued(log, command) ==
    LET at == {i \in 1..Len(log) : log[i].cmd = command}
    IN  IF at = {} THEN 0 ELSE CHOOSE i \in at : \A j \in at : j <= i

ProbesAfter(log, command) ==
    IF LastIssued(log, command) = 0 THEN 0
    ELSE Cardinality({i \in (LastIssued(log, command) + 1)..Len(log) :
                         log[i].cmd = "apps get"})

WaitLoops == {"start_wait", "delete_wait"}

\* C13: when every command returns, start_app issues at most 20 status
\* probes after "apps start" and delete_app at most 30 after "apps delete";
\* each wait loop is left, and the operation then returns True when a probe
\* showed the awaited state and False when none did.
C13_BoundedPolling ==
    /\ [](/\ ProbesAfter(tool.issued, "apps start") <= 20
          /\ ProbesAfter(tool.issued, "apps delete") <= 30)
    /\ [][ (tool.pc \in WaitLoops /\ tool'.pc # tool.pc)
           => (tool'.pc = "exit" /\ tool'.ret = Bool(tool'.awaited)) ]_vars
    /\ (tool.pc \in WaitLoops) ~> (tool.pc = "exit")

\* C13 witness: a delete process ended with False after 30 probes none of
\* which reported the app as not found.
C13_Witness ==
    /\ tool.cmd = "delete"
    /\ tool.pc = "exit"
    /\ ProbesAfter(tool.issued, "apps delete") = 30
    /\ ~tool.awaited
    /\ tool.ret = "False"

\* the workspace-URL discovery commands, and the URL each one yields
FoundBy ==
    [c \in {"auth profiles --output json", "config get", "auth profiles",
            "workspace get-status"} |->
        CASE c = "auth profiles --output json" -> WorkspaceUrl.profiles
          [] c = "config get" -> WorkspaceUrl.config
          [] c = "auth profiles" -> WorkspaceUrl.legacy
          [] c = "workspace get-status" -> WorkspaceUrl.status]

IsDiscovery(c) == c.cmd \in DOMAIN FoundBy

\* where the current discovery began: both routines first ask for the
\* user ("current-user me"), and check_prerequisites then forgets the URL
DiscoveryStart(t) == LastIssued(t.issued, "current-user me")

\* the discovery commands issued since then, in the order issued
Discovery(t) ==
    LET d == SelectSeq(SubSeq(t.issued, DiscoveryStart(t) + 1, Len(t.issued)),
                       IsDiscovery)
    IN  [i \in 1..Len(d) |-> d[i].cmd]

IsPrefix(s, t) == Len(s) <= Len(t) /\ \A i \in 1..Len(s) : s[i] = t[i]

DiscoveryPoints ==
    {"pre_profiles", "pre_config", "pre_legacy",
     "sci_profiles", "sci_config", "sci_wsstatus"}

\* profiles (JSON), config (JSON), legacy text parsing of the profiles list
LegacyOrder == <<"auth profiles --output json", "config get", "auth profiles">>

\* profiles (JSON), config (JSON), workspace status
StatusOrder ==
    <<"auth profiles --output json", "config get", "workspace get-status">>

\* discovery proceeds along one of `orders`: the commands issued are the
\* beginning of one of them, the URL kept is the one the last command
\* issued yielded, and discovery ends without a URL (and the process with
\* False) only after all three commands of an order
DiscoveryAlong(orders) ==
    LET d == Discovery(tool)
    IN  /\ \E o \in orders : IsPrefix(d, o)
        /\ (d # <<>> /\ has_workspace(tool))
             => tool.workspace_url = FoundBy[d[Len(d)]]
        /\ (d # <<>> /\ ~has_workspace(tool) /\ tool.pc \notin DiscoveryPoints)
             => d \in orders
        /\ (d # <<>> /\ ~has_workspace(tool) /\ tool.pc = "exit")
             => tool.ret = "False"

\* within one discovery a command is issued only while no URL is known,
\* and a URL once found is kept
FirstUrlKept ==
    (tool'.runs = tool.runs /\ DiscoveryStart(tool') = DiscoveryStart(tool))
      => /\ Discovery(tool') # Discovery(tool) => ~has_workspace(tool)
         /\ has_workspace(tool) => tool'.workspace_url = tool.workspace_url

\* C16 (as stated): every discovery follows profiles (JSON), config (JSON),
\* legacy text parsing; a later command is issued only while no URL is
\* known, the first URL found is kept, and no URL is reported only after
\* all three.
C16_DiscoveryOrder ==
    /\ []DiscoveryAlong({LegacyOrder})
    /\ [][FirstUrlKept]_vars

\* C16 (amended): check_prerequisites follows profiles (JSON), config
\* (JSON), legacy text parsing; show_connection_info, which discovers the
\* URL for status, follows profiles (JSON), config (JSON), workspace
\* status.  In either, a later command is issued only while no URL is
\* known, the first URL found is kept, and no URL is reported only after
\* all three.
C16_DiscoveryOrderPerRoutine ==
    /\ []DiscoveryAlong({IF tool.cmd = "status" THEN StatusOrder
                         ELSE LegacyOrder})
    /\ [][FirstUrlKept]_vars

\* C16 witness: in a deploy process the first two methods yielded nothing
\* and the legacy text parsing found the URL, which is the one kept.
C16_Witness ==
    /\ tool.cmd = "deploy"
    /\ Discovery(tool) = LegacyOrder
    /\ tool.workspace_url = WorkspaceUrl.legacy
    /\ tool.pc = "deploy_name"

----------------------------------------------------------------------------
(***************************************************************************)
(* Further claims about ChatService (checked under SpecChatFiles)          *)
(***************************************************************************)

\* the ids get_saved_chats listed
ListedIds(listing) == {listing[i].id : i \in 1..Len(listing)}

----------------------------------------------------------------------------
(***************************************************************************)
(* Claims about display_friendly_error (checked under SpecErrors)          *)
(***************************************************************************)

\* the categories in the order of their rules, and the generic one
CategoryOrder ==
    <<"Workspace Limit Reached", "Permission Error", "Resource Not Found",
      "Invalid Request">>

\* does the text, whatever its case, match the keyword rule of category c
RuleMatches(c, text) ==
    LET has(k) == Contains(Lower(text), k)
    IN  CASE c = 1 -> has("max limit") /\ has("scope")
          [] c = 2 -> has("permission") \/ has("access")
          [] c = 3 -> has("not found")
          [] c = 4 -> has("invalid") \/ has("bad request")

\* C17: the panel of display_friendly_error carries one of the five
\* categories; it is the category of the earliest rule, in the order limit
\* reached, permission, not-found, invalid-request, that the text matches,
\* and the generic one exactly when the text matches no rule.
C17_OneCategoryEarliestWins ==
    errorPanel.shown =>
      /\ errorPanel.error_type
            \in {CategoryOrder[c] : c \in 1..4} \cup {"Error"}
      /\ \A c \in 1..4 :
            (RuleMatches(c, error_msg)
               /\ \A b \in 1..(c - 1) : ~RuleMatches(b, error_msg))
              => errorPanel.error_type = CategoryOrder[c]
      /\ errorPanel.error_type = "Error"
            <=> \A c \in 1..4 : ~RuleMatches(c, error_msg)

\* C17 witness: a text with "Not Found", "inaccessible" and "Max Limit"
\* (but no "scope") was displayed as a permission error.
C17_Witness ==
    /\ errorPanel.shown
    /\ \E i \in 1..Len(error_msg) : error_msg[i] = "Not Found"
    /\ \E i \in 1..Len(error_msg) : error_msg[i] = "inaccessible"
    /\ \E i \in 1..Len(error_msg) : error_msg[i] = "Max Limit"
    /\ errorPanel.error_type = "Permission Error"

----------------------------------------------------------------------------
(***************************************************************************)
(* Claims about get_openai_api_key (checked under SpecApiKey)              *)
(***************************************************************************)

\* C18: get_openai_api_key returns the value of the secret store when the
\* store can be reached and yields a non-empty key, whatever the
\* environment variable is; otherwise it returns the environment variable
\* when that is non-empty; it raises ValueError exactly when neither yields
\* a non-empty key.
C18_SecretStoreFirst ==
    keyCall.ran =>
      LET reachable == keyCall.secret \notin {"ImportError", "Exception"}
          fromStore == reachable /\ keyCall.secret # ""
          fromEnv == keyCall.env \notin {NoneStr, ""}
      IN  /\ fromStore
                => (keyCall.raised = "" /\ keyCall.result = keyCall.secret)
          /\ (~fromStore /\ fromEnv)
                => (keyCall.raised = "" /\ keyCall.result = keyCall.env)
          /\ keyCall.raised = "ValueError" <=> (~fromStore /\ ~fromEnv)
          /\ keyCall.raised \in {"", "ValueError"}

\* C18 witness: both the secret store and the environment held a key, and
\* the call returned the one of the secret store.
C18_Witness ==
    /\ keyCall.ran
    /\ keyCall.secret = "sk-from-secrets"
    /\ keyCall.env = "sk-from-env"
    /\ keyCall.result = "sk-from-secrets"

----------------------------------------------------------------------------
(***************************************************************************)
(* Claims about a fresh deploy (checked under SpecFreshDeploy)             *)
(***************************************************************************)

\* C25: a deploy process in which every external command succeeds and the
\* app name does not exist yet ends with deploy having returned True.
C25_FreshDeployReturnsTrue ==
    (tool.cmd = "deploy" /\ tool.pc = "exit") => tool.ret = "True"

----------------------------------------------------------------------------
(***************************************************************************)
(* Claims about stop, delete and the deployment steps (checked under       *)
(* SpecDeploy)                                                             *)
(***************************************************************************)

Issued(t, command) == LastIssued(t.issued, command) # 0

\* C28: a delete process changes app.yaml only by removing it, in the step
\* in which a probe after the accepted "apps delete" answered "not found",
\* and then returns True; it returns True in no other case: when "apps
\* delete" fails (no probe is issued) or 30 probes pass without that
\* answer, it returns False and app.yaml is as it was.
C28_CleanupOnlyWhenNotFound ==
    /\ [][ (tool.cmd = "delete" /\ tool'.runs = tool.runs
              /\ appYaml' # appYaml)
           => /\ tool.pc = "delete_wait"
              /\ appYaml' = NoFile
              /\ tool'.awaited
              /\ tool'.ret = "True" ]_vars
    /\ []((tool.cmd = "delete" /\ tool.pc = "exit")
            => /\ tool.ret \in {"True", "False"}
               /\ tool.ret = "True" <=> tool.awaited
               /\ tool.ret = "True"
                    => /\ appYaml = NoFile
                       /\ ProbesAfter(tool.issued, "apps delete") \in 1..30
               /\ (tool.ret = "False" /\ Issued(tool, "apps delete"))
                    => /\ ProbesAfter(tool.issued, "apps delete") \in {0, 30}
                       /\ appYaml # NoFile
                       /\ ~tool.yamlTouched)

\* C28 witness: the 30th probe of a delete process answered "not found";
\* app.yaml, which was there, is removed and delete_app returned True.
C28_Witness ==
    /\ tool.cmd = "delete"
    /\ tool.pc = "exit"
    /\ ProbesAfter(tool.issued, "apps delete") = 30
    /\ tool.ret = "True"
    /\ tool.yamlTouched
    /\ appYaml = NoFile

\* C29: "apps stop" is in the log of a stop process, and "apps delete" in
\* that of a delete process, only when the user has answered yes to the
\* operation's own prompt; a process that ended without that yes returned
\* False, issued neither command and did not touch app.yaml.
C29_DestructiveNeedsYes ==
    /\ tool.cmd = "stop"
         => /\ Issued(tool, "apps stop") => "stop" \in tool.confirmed
            /\ (tool.pc = "exit" /\ "stop" \notin tool.confirmed)
                 => (tool.ret = "False" /\ ~tool.yamlTouched)
    /\ tool.cmd = "delete"
         => /\ Issued(tool, "apps delete") => "delete" \in tool.confirmed
            /\ (tool.pc = "exit" /\ "delete" \notin tool.confirmed)
                 => (tool.ret = "False" /\ ~tool.yamlTouched)

\* C29 witness: a stop process in which the user confirmed the workspace
\* and then declined to stop: it ended with False and no "apps stop".
C29_Witness ==
    /\ tool.cmd = "stop"
    /\ tool.pc = "exit"
    /\ "workspace" \in tool.confirmed
    /\ "stop" \notin tool.confirmed
    /\ ~Issued(tool, "apps stop")
    /\ tool.ret = "False"

\* the step issues `command`
NewlyIssued(command) ==
    /\ tool'.runs = tool.runs
    /\ Len(tool'.issued) > Len(tool.issued)
    /\ tool'.issued[Len(tool'.issued)].cmd = command

\* C30: "apps deploy" is issued only right after the sync command of the
\* same process succeeded; in deploy_app (the run entry) the sync is issued
\* only right after "apps create" succeeded or answered "already exists";
\* a create, sync or deploy step that failed is the last command of its
\* process, which ends with False.
C30_StepOrder ==
    /\ [][ /\ NewlyIssued("apps deploy")
             => /\ tool.lastStep.cmd \in {"sync", "apps sync"}
                /\ tool.lastStep.result = "ok"
                /\ tool.issued[Len(tool.issued)].cmd = tool.lastStep.cmd
           /\ (NewlyIssued("sync") /\ tool.cmd = "run")
             => /\ tool.lastStep.cmd = "apps create"
                /\ tool.lastStep.result \in {"ok", "exists"}
                /\ tool.issued[Len(tool.issued)].cmd = "apps create" ]_vars
    /\ [](tool.lastStep.result = "fail"
            => /\ tool.pc = "exit"
               /\ tool.ret = "False"
               /\ tool.issued[Len(tool.issued)].cmd = tool.lastStep.cmd)

\* C30 witness: deploy_app went on after "apps create" answered "already
\* exists", its sync succeeded and its "apps deploy" failed.
C30_Witness ==
    /\ tool.cmd = "run"
    /\ tool.pc = "exit"
    /\ tool.lastStep = [cmd |-> "apps deploy", result |-> "fail"]
    /\ Len(Mutations(tool)) >= 3
    /\ tool.ret = "False"

----------------------------------------------------------------------------
(***************************************************************************)
(* Claims about clean_error_message (checked under SpecClean)              *)
(***************************************************************************)
\* C24: whatever the raw error text, no line of the text that
\* clean_error_message returns holds one of the noise markers, on each of
\* its return statements.
C24_NoNoiseInResult ==
    cleanResult.ran =>
        \A i \in 1..Len(cleanResult.lines) : ~IsNoise(cleanResult.lines[i])

----------------------------------------------------------------------------
(***************************************************************************)
(* Claims about the session handlers and the sidebar (checked under        *)
(* SpecSession)                                                            *)
(***************************************************************************)
\* C21: for every list that get_saved_chats returns, render_sidebar ends
\* without an exception and has rendered, for each saved chat in turn, a
\* load button and a delete button whose callbacks get the id under which
\* the chat was saved.
C21_SidebarListsSavedChats ==
    sidebar.rendered =>
        /\ sidebar.raised = ""
        /\ Len(sidebar.buttons) = Len(sidebar.saved_chats)
        /\ \A i \in 1..Len(sidebar.buttons) :
              /\ sidebar.buttons[i].on_load_chat = sidebar.saved_chats[i].id
              /\ sidebar.buttons[i].on_delete_chat = sidebar.saved_chats[i].id

\* the step is a call of the handler `op`
Handles(op) == handled'.n = handled.n + 1 /\ handled'.op = op

\* C22: a handle_message(user_input) that ends without an exception leaves
\* as transcript the transcript before the call followed by the user record
\* of the input and then the assistant record of the response, keeps the
\* chat id, and leaves under that chat id a stored file with the chat name
\* and the whole transcript of the session.
C22_MessageAppendsTwoAndSaves ==
    [][(Handles("message") /\ handled'.raised = "") =>
          /\ session'.messages =
                session.messages
                  \o <<UserRecord(handled'.input), AssistantRecord(handled'.response)>>
          /\ session'.chat_id = session.chat_id
          /\ session.chat_id \in DOMAIN files'
          /\ files'[session.chat_id].id = session.chat_id
          /\ files'[session.chat_id].name = session'.chat_name
          /\ files'[session.chat_id].messages = FormatMessages(session'.messages)
          /\ \A k \in DOMAIN files \ {session.chat_id} :
                k \in DOMAIN files' /\ files'[k] = files[k]]_vars

\* a message is answered in a chat that has a record already
C22_Witness ==
    /\ handled.op = "message"
    /\ handled.raised = ""
    /\ Len(session.messages) > 2
    /\ session.chat_id \in DOMAIN files

C26_MemoryFollowsSession ==
    /\ \A i \in 1..Len(memoryChat) : memoryChat[i] = session.chat_id
    /\ handled.op = "new_chat" => agent.history = <<>>

\* C27: a handle_message that ends with an exception leaves messages and
\* chat name as they were and changes no stored file.
C27_FailedMessageLeavesNoTrace ==
    [][(Handles("message") /\ handled'.raised # "") =>
          /\ session'.messages = session.messages
          /\ session'.chat_name = session.chat_name
          /\ files' = files]_vars

====
